---- MODULE Spec2Model ----
(***************************************************************************)
(* Multi-tenant commerce backend (nixonok/ecom-backend): the admin guard,  *)
(* the tenant checks of the order, category and product routes, and the    *)
(* rows they read and write.                                               *)
(*                                                                         *)
(* The persisted store is the tables orders, orderItems, categories,       *)
(* products and the product-category links, plus the object storage the    *)
(* delete handlers clean up.  Every route handler is one action that takes *)
(* the request (credential, path id, raw payload) and leaves the response  *)
(* in `last`; RequestDone ends the request and discards the request-scoped *)
(* values, after which the next request is taken.                          *)
(***************************************************************************)
EXTENDS Integers, Sequences, FiniteSets, TLC

(* ------------------------------ bounds --------------------------------- *)

\* Rows ever inserted, over all tables together.
MaxRows == 2

(* --------------------------- value domains ----------------------------- *)

\* JavaScript null / undefined as they appear in payloads and rows.
NULL == "null"
UNDEF == "undefined"

\* Rows of the Store table (provisioned out of band, never written here).
Stores == {"S1", "S2"}

\* A store id that names no Store row.
GhostStore == "S9"

\* A request's credential: none, one that jwtVerify rejects, or a verified
\* token whose claims are { role, storeId | null }.
NoCred == [kind |-> "none", role |-> NULL, storeId |-> NULL]
BadCred == [kind |-> "invalid", role |-> NULL, storeId |-> NULL]

Principal(role, storeId) == [kind |-> "valid", role |-> role, storeId |-> storeId]

(* ------------------------------ state ---------------------------------- *)

VARIABLES
    orders,         \* Order rows by id
    orderItems,     \* OrderItem rows: by orderId, the lines in their order
    categories,     \* Category rows by id
    products,       \* Product rows by id
    links,          \* ProductCategory rows: [productId, categoryId]
    s3Deleted,      \* object URLs whose DeleteObject command succeeded
    nextOrder,      \* next Order id
    nextCategory,   \* next Category id
    nextProduct,    \* next Product id
    last,           \* the request being answered and its response
    reading,        \* category updates between their findUnique and update
    placing         \* storefront orders between their findMany and create

vars == <<orders, orderItems, categories, products, links, s3Deleted,
          nextOrder, nextCategory, nextProduct, last, reading, placing>>

tables == <<orders, orderItems, categories, products, links, s3Deleted,
            nextOrder, nextCategory, nextProduct>>

\* A request without a body or query string.
NoPayload == [storeId |-> UNDEF]

Idle == [op |-> "idle", cred |-> NoCred, id |-> 0, req |-> NoPayload,
         code |-> 0, out |-> {}]

RowsInserted == (nextOrder - 1) + (nextCategory - 1) + (nextProduct - 1)

\* Category updates that may wait for their update at the same time.
MaxReading == 2

\* Storefront orders that may wait for their create at the same time.
MaxPlacing == 2

\* An order of the storefront comes after the catalog rows it names: where
\* this bound is used it may be the one row past MaxRows, so that an order of
\* MaxRows products, or a second order of a product, is reached.
MaxStorefrontRows == MaxRows + 1

\* A row as it is serialised into a response body.
Row(id, rec) == [id |-> id, row |-> rec]

\* `include: { items: true }`: an Order row with its OrderItem rows.
itemsOf(id) == IF id \in DOMAIN orderItems THEN orderItems[id] ELSE <<>>

withItems(id) == Row(id, orders[id] @@ [items |-> itemsOf(id)])

(* --------------------------- plugins/auth ------------------------------ *)

\* A mutant: the guard that also lets CUSTOMER through.
admin_anyRole(cred) ==
    IF cred.kind # "valid" THEN 401 ELSE 0

\* A mutant: a guard that admits SUPER_ADMIN and ADMIN only.
admin_noStaff(cred) ==
    IF cred.kind # "valid" THEN 401
    ELSE IF cred.role # "SUPER_ADMIN" /\ cred.role # "ADMIN" THEN 403
         ELSE 0

\* The admin preHandler: 0 when the request goes on to the handler, else the
\* status it replies with.
admin(cred) ==
    IF cred.kind # "valid" THEN 401
    ELSE IF cred.role # "SUPER_ADMIN" /\ cred.role # "ADMIN" /\ cred.role # "STAFF"
         THEN 403
         ELSE 0

(* --------------------------- utils/pagination -------------------------- *)

\* pageParams' default page size; the order list passes the request object
\* itself, which carries neither page nor limit, so the defaults apply.
DefaultLimit == 20

\* The `take` newest rows among ids (orderBy createdAt desc, skip 0); ids are
\* handed out in creation order.
pageParams(ids) ==
    {i \in ids : Cardinality({j \in ids : j > i}) < DefaultLimit}

\* String.prototype.trim on the query-string values in use.
trim(s) ==
    CASE s = " " -> ""
      [] s = " S1 " -> "S1"
      [] OTHER -> s

\* `typeof query.storeId === 'string' ? query.storeId.trim() : undefined`,
\* then the truthiness test `if (storeIdQuery)`.
storeIdQuery(raw) ==
    IF raw = UNDEF THEN UNDEF
    ELSE IF trim(raw) = "" THEN UNDEF ELSE trim(raw)

(* ----------------------------- routes/orders --------------------------- *)

\* An absent optional integer, and an absent optional array, of a payload.
UndefInt == 0 - 1

UndefUrls == <<UNDEF>>

UndefIds == <<UndefInt>>

\* zod's object parse keeps the declared keys only.
updateOrderDto(raw) ==
    [deliveryCents |-> raw.deliveryCents, taxCents |-> raw.taxCents,
     totalCents |-> raw.totalCents, status |-> raw.status]

RECURSIVE computedSubtotal(_)
computedSubtotal(items) ==
    IF items = <<>> THEN 0
    ELSE Head(items).unitPriceCents * Head(items).quantity
         + computedSubtotal(Tail(items))

\* items.create of the admin channel: the operator's line, plus its total.
adminItem(it) ==
    [productId |-> it.productId, quantity |-> it.quantity,
     unitPriceCents |-> it.unitPriceCents,
     lineTotalCents |-> it.unitPriceCents * it.quantity,
     productTitle |-> it.productTitle, productSku |-> it.productSku,
     productImageUrl |-> it.productImageUrl]

\* A mutant: the list that trusts the query string for every role.
GET_orders_trustQuery(user, query) ==
    LET sq == storeIdQuery(query.storeId)
        hit == {i \in DOMAIN orders :
                  /\ (sq = UNDEF \/ orders[i].storeId = sq)
                  /\ (query.status = UNDEF \/ orders[i].status = query.status)}
    IN [code |-> 200, out |-> {withItems(i) : i \in pageParams(hit)}]

\* GET /orders
GET_orders(user, query) ==
    LET sq == storeIdQuery(query.storeId)
        scope == IF user.role = "SUPER_ADMIN" THEN sq ELSE user.storeId
        hit == {i \in DOMAIN orders :
                  /\ (scope = UNDEF \/ orders[i].storeId = scope)
                  /\ (query.status = UNDEF \/ orders[i].status = query.status)}
    IN IF user.role # "SUPER_ADMIN" /\ user.storeId = NULL
       THEN [code |-> 400, out |-> {}]
       ELSE [code |-> 200, out |-> {withItems(i) : i \in pageParams(hit)}]

\* GET /orders/:id
GET_orders_id(user, id) ==
    IF id \notin DOMAIN orders THEN [code |-> 404, out |-> {}]
    ELSE IF user.role # "SUPER_ADMIN"
            /\ (user.storeId = NULL \/ user.storeId # orders[id].storeId)
         THEN [code |-> 403, out |-> {}]
         ELSE [code |-> 200, out |-> {withItems(id)}]

\* The Order row POST /orders writes for the resolved store.
adminOrder(storeId, body) ==
    LET subtotalCents == IF body.subtotalCents # 0 THEN body.subtotalCents
                         ELSE computedSubtotal(body.items)
        totalCents == IF body.totalCents # UndefInt THEN body.totalCents
                      ELSE subtotalCents + body.deliveryCents + body.taxCents
    IN [storeId |-> storeId,
        status |-> IF body.status # UNDEF THEN body.status ELSE "PENDING",
        paymentMethod |-> body.paymentMethod,
        subtotalCents |-> subtotalCents,
        deliveryCents |-> body.deliveryCents,
        taxCents |-> body.taxCents,
        totalCents |-> totalCents,
        currency |-> body.currency]

\* The OrderItem rows the nested items.create writes with it.
adminItems(body) == [k \in DOMAIN body.items |-> adminItem(body.items[k])]

\* A mutant: an item schema that lets any quantity through.
orderItemDto_anyQuantity(it) == it.unitPriceCents >= 0

\* orderItemDto.parse: a positive quantity, a price that is not negative.
orderItemDto(it) == it.quantity > 0 /\ it.unitPriceCents >= 0

\* createOrderDto.parse succeeds: money fields not negative, at least one item.
createOrderDto(body) ==
    /\ body.subtotalCents >= 0
    /\ body.deliveryCents >= 0
    /\ body.taxCents >= 0
    /\ body.totalCents >= 0
    /\ Len(body.items) >= 1
    /\ \A k \in DOMAIN body.items : orderItemDto(body.items[k])

\* A mutant: creation that takes the payload's storeId for every role.
POST_orders_trustBody(user, body) ==
    IF ~createOrderDto(body)
    THEN [code |-> 500, out |-> {}, orders |-> orders,
          orderItems |-> orderItems]
    ELSE IF body.storeId = UNDEF
    THEN [code |-> 400, out |-> {}, orders |-> orders,
             orderItems |-> orderItems]
    ELSE IF body.storeId \notin Stores
         THEN [code |-> 500, out |-> {}, orders |-> orders,
             orderItems |-> orderItems]
         ELSE LET row == adminOrder(body.storeId, body)
              IN [code |-> 201, out |-> {Row(nextOrder, row @@ [items |-> adminItems(body)])},
                  orders |-> (nextOrder :> row) @@ orders,
                orderItems |-> (nextOrder :> adminItems(body)) @@ orderItems]

\* POST /orders
POST_orders(user, body) ==
    LET storeId == IF user.role = "SUPER_ADMIN" THEN body.storeId
                   ELSE user.storeId
    IN \* createOrderDto.parse throws: no handler catches it, the reply is 500
       IF ~createOrderDto(body)
       THEN [code |-> 500, out |-> {}, orders |-> orders,
             orderItems |-> orderItems]
       ELSE IF user.role = "SUPER_ADMIN" /\ body.storeId = UNDEF
       THEN [code |-> 400, out |-> {}, orders |-> orders,
             orderItems |-> orderItems]
       ELSE IF user.role # "SUPER_ADMIN" /\ user.storeId = NULL
       THEN [code |-> 400, out |-> {}, orders |-> orders,
             orderItems |-> orderItems]
       \* Order_storeId_fkey: the insert throws and nothing catches it
       ELSE IF storeId \notin Stores
       THEN [code |-> 500, out |-> {}, orders |-> orders,
             orderItems |-> orderItems]
       ELSE LET row == adminOrder(storeId, body)
            IN [code |-> 201, out |-> {Row(nextOrder, row @@ [items |-> adminItems(body)])},
                orders |-> (nextOrder :> row) @@ orders,
                orderItems |-> (nextOrder :> adminItems(body)) @@ orderItems]

\* prisma.order.update: an undefined field is left as it is.
orderUpdate(row, data) ==
    [row EXCEPT
       !.deliveryCents = IF data.deliveryCents # UndefInt
                         THEN data.deliveryCents ELSE @,
       !.taxCents = IF data.taxCents # UndefInt THEN data.taxCents ELSE @,
       !.totalCents = IF data.totalCents # UndefInt THEN data.totalCents ELSE @,
       !.status = IF data.status # UNDEF THEN data.status ELSE @]

\* A mutant: the update that decides ownership from the payload's storeId.
PUT_orders_id_payloadOwner(user, id, raw) ==
    LET body == updateOrderDto(raw)
    IN IF id \notin DOMAIN orders
       THEN [code |-> 404, out |-> {}, orders |-> orders]
       ELSE IF user.role # "SUPER_ADMIN"
               /\ (user.storeId = NULL \/ user.storeId # raw.storeId)
       THEN [code |-> 403, out |-> {}, orders |-> orders]
       ELSE LET row == orderUpdate(orders[id], body)
            IN [code |-> 200, out |-> {Row(id, row @@ [items |-> itemsOf(id)])},
                orders |-> [orders EXCEPT ![id] = row]]

\* PUT /orders/:id
PUT_orders_id(user, id, raw) ==
    LET body == updateOrderDto(raw)
    IN IF id \notin DOMAIN orders
       THEN [code |-> 404, out |-> {}, orders |-> orders]
       ELSE IF user.role # "SUPER_ADMIN"
               /\ (user.storeId = NULL \/ user.storeId # orders[id].storeId)
       THEN [code |-> 403, out |-> {}, orders |-> orders]
       ELSE LET row == orderUpdate(orders[id], body)
            IN [code |-> 200, out |-> {Row(id, row @@ [items |-> itemsOf(id)])},
                orders |-> [orders EXCEPT ![id] = row]]

\* OrderItem.orderId references Order with ON DELETE CASCADE: the rows left
\* when Order id is deleted.
OrderItem_orderId_fkey(id) ==
    [i \in DOMAIN orderItems \ {id} |-> orderItems[i]]

\* A mutant: the delete that leaves the OrderItem rows of the order behind.
DELETE_orders_id_keepItems(user, id) ==
    IF id \notin DOMAIN orders
    THEN [code |-> 404, out |-> {}, orders |-> orders,
          orderItems |-> orderItems]
    ELSE IF user.role # "SUPER_ADMIN"
            /\ (user.storeId = NULL \/ user.storeId # orders[id].storeId)
    THEN [code |-> 403, out |-> {}, orders |-> orders,
          orderItems |-> orderItems]
    ELSE [code |-> 204, out |-> {},
          orders |-> [i \in DOMAIN orders \ {id} |-> orders[i]],
          orderItems |-> orderItems]

\* DELETE /orders/:id
DELETE_orders_id(user, id) ==
    IF id \notin DOMAIN orders
    THEN [code |-> 404, out |-> {}, orders |-> orders,
             orderItems |-> orderItems]
    ELSE IF user.role # "SUPER_ADMIN"
            /\ (user.storeId = NULL \/ user.storeId # orders[id].storeId)
    THEN [code |-> 403, out |-> {}, orders |-> orders,
             orderItems |-> orderItems]
    ELSE [code |-> 204, out |-> {},
          orders |-> [i \in DOMAIN orders \ {id} |-> orders[i]],
          orderItems |-> OrderItem_orderId_fkey(id)]

\* PATCH /orders/:id/status
PATCH_orders_id_status(user, id, body) ==
    IF id \notin DOMAIN orders
    THEN [code |-> 404, out |-> {}, orders |-> orders]
    ELSE IF user.role # "SUPER_ADMIN"
            /\ (user.storeId = NULL \/ user.storeId # orders[id].storeId)
    THEN [code |-> 403, out |-> {}, orders |-> orders]
    ELSE LET row == [orders[id] EXCEPT !.status = body.status]
         IN [code |-> 200, out |-> {Row(id, row)},
             orders |-> [orders EXCEPT ![id] = row]]

(* ------------------------------ utils/s3util --------------------------- *)

\* extractKeyFromUrl: the decoded path of a URL without its leading slashes;
\* a string that is no URL is taken to be a key already.
extractKeyFromUrl(url) ==
    CASE url = "https://b/i1" -> "i1"
      [] url = "https://b/t1" -> "t1"
      [] url = "https://b/g1" -> "g1"
      [] url = "https://b/g2" -> "g2"
      [] OTHER -> url

\* deleteObjectByUrl / deleteObjectsByUrls: the keys removed from the bucket
\* when the command succeeds; a rejected command is logged by the caller.
deleteObjectsByUrls(urls, s3ok) ==
    IF s3ok
    THEN s3Deleted \cup {extractKeyFromUrl(u) : u \in {v \in urls : v # NULL}}
    ELSE s3Deleted

(* --------------------------- routes/categories ------------------------- *)

\* Case-insensitive `contains` on the titles and slugs in use.
contains(hay, needle) ==
    \/ hay = needle
    \/ needle = "T" /\ hay \in {"t1", "t2"}

\* categoryCreateDto.omit({ storeId }).partial(): storeId is no key of it.
categoryUpdateDto(raw) ==
    [title |-> raw.title, slug |-> raw.slug,
     description |-> raw.description, iconUrl |-> raw.iconUrl]

\* A mutant: a Category table without the unique index.
categorySlugTaken_noIndex(storeId, slug, except) == FALSE

\* Category_storeId_slug_key, for a row that is about to take (storeId, slug).
categorySlugTaken(storeId, slug, except) ==
    \E i \in DOMAIN categories \ except :
        categories[i].storeId = storeId /\ categories[i].slug = slug

\* GET /categories
GET_categories(user, query) ==
    LET sq == storeIdQuery(query.storeId)
        \* q is trimmed and tested for truthiness the same way
        q == storeIdQuery(query.q)
        scope == IF user.role = "SUPER_ADMIN" THEN sq ELSE user.storeId
        hit == {i \in DOMAIN categories :
                  /\ (scope = UNDEF \/ categories[i].storeId = scope)
                  /\ (q = UNDEF
                      \/ contains(categories[i].title, q)
                      \/ contains(categories[i].slug, q))}
    IN IF user.role # "SUPER_ADMIN" /\ user.storeId = NULL
       THEN [code |-> 400, out |-> {}]
       ELSE [code |-> 200, out |-> {Row(i, categories[i]) : i \in hit}]

\* GET /categories/:id
GET_categories_id(user, id) ==
    IF id \notin DOMAIN categories THEN [code |-> 404, out |-> {}]
    ELSE IF user.role # "SUPER_ADMIN"
            /\ (user.storeId = NULL \/ user.storeId # categories[id].storeId)
         THEN [code |-> 403, out |-> {}]
         ELSE [code |-> 200, out |-> {Row(id, categories[id])}]

\* A mutant: creation that falls back to the first store when none resolves.
POST_categories_defaultStore(user, body) ==
    LET picked == IF user.role = "SUPER_ADMIN" THEN body.storeId
                  ELSE user.storeId
        storeId == IF picked \in {UNDEF, NULL} THEN "S1" ELSE picked
        row == [storeId |-> storeId, title |-> body.title, slug |-> body.slug,
                description |-> IF body.description = UNDEF THEN NULL
                                ELSE body.description,
                iconUrl |-> IF body.iconUrl = UNDEF THEN NULL ELSE body.iconUrl]
    IN IF storeId \notin Stores
       THEN [code |-> 500, out |-> {}, categories |-> categories]
       ELSE IF categorySlugTaken(storeId, body.slug, {})
       THEN [code |-> 409, out |-> {}, categories |-> categories]
       ELSE [code |-> 201, out |-> {Row(nextCategory, row)},
             categories |-> (nextCategory :> row) @@ categories]

\* POST /categories
POST_categories(user, body) ==
    LET storeId == IF user.role = "SUPER_ADMIN" THEN body.storeId
                   ELSE user.storeId
        row == [storeId |-> storeId, title |-> body.title, slug |-> body.slug,
                description |-> IF body.description = UNDEF THEN NULL
                                ELSE body.description,
                iconUrl |-> IF body.iconUrl = UNDEF THEN NULL ELSE body.iconUrl]
    IN IF user.role = "SUPER_ADMIN" /\ body.storeId = UNDEF
       THEN [code |-> 400, out |-> {}, categories |-> categories]
       ELSE IF user.role # "SUPER_ADMIN" /\ user.storeId = NULL
       THEN [code |-> 400, out |-> {}, categories |-> categories]
       \* Category_storeId_fkey: no error code the handler maps
       ELSE IF storeId \notin Stores
       THEN [code |-> 500, out |-> {}, categories |-> categories]
       \* P2002
       ELSE IF categorySlugTaken(storeId, body.slug, {})
       THEN [code |-> 409, out |-> {}, categories |-> categories]
       ELSE [code |-> 201, out |-> {Row(nextCategory, row)},
             categories |-> (nextCategory :> row) @@ categories]

\* The data of prisma.category.update in PUT /categories/:id.
categoryUpdate(existing, body) ==
    [existing EXCEPT
       !.title = IF body.title # UNDEF THEN body.title ELSE @,
       !.slug = IF body.slug # UNDEF THEN body.slug ELSE @,
       !.description = IF body.description # UNDEF THEN body.description ELSE @,
       !.iconUrl = IF body.iconUrl # UNDEF THEN body.iconUrl ELSE @]

\* A mutant: the update whose DTO keeps storeId and writes it.
PUT_categories_id_keepStoreId(user, id, raw) ==
    IF id \notin DOMAIN categories
    THEN [code |-> 404, out |-> {}, categories |-> categories]
    ELSE IF user.role # "SUPER_ADMIN"
            /\ (user.storeId = NULL \/ user.storeId # categories[id].storeId)
    THEN [code |-> 403, out |-> {}, categories |-> categories]
    ELSE LET upd == categoryUpdate(categories[id], categoryUpdateDto(raw))
             row == [upd EXCEPT !.storeId = IF raw.storeId \in Stores
                                            THEN raw.storeId ELSE @]
         IN IF categorySlugTaken(row.storeId, row.slug, {id})
            THEN [code |-> 409, out |-> {}, categories |-> categories]
            ELSE [code |-> 200, out |-> {Row(id, row)},
                  categories |-> [categories EXCEPT ![id] = row]]

\* PUT /categories/:id
PUT_categories_id(user, id, raw) ==
    IF id \notin DOMAIN categories
    THEN [code |-> 404, out |-> {}, categories |-> categories]
    ELSE IF user.role # "SUPER_ADMIN"
            /\ (user.storeId = NULL \/ user.storeId # categories[id].storeId)
    THEN [code |-> 403, out |-> {}, categories |-> categories]
    ELSE LET row == categoryUpdate(categories[id], categoryUpdateDto(raw))
         IN \* P2002
            IF categorySlugTaken(row.storeId, row.slug, {id})
            THEN [code |-> 409, out |-> {}, categories |-> categories]
            ELSE [code |-> 200, out |-> {Row(id, row)},
                  categories |-> [categories EXCEPT ![id] = row]]

\* A mutant: the delete on a table no link refers to by a foreign key.
DELETE_categories_id_noFkey(user, id, s3ok) ==
    IF id \notin DOMAIN categories
    THEN [code |-> 404, out |-> {}, categories |-> categories,
          s3Deleted |-> s3Deleted]
    ELSE IF user.role # "SUPER_ADMIN"
            /\ (user.storeId = NULL \/ user.storeId # categories[id].storeId)
    THEN [code |-> 403, out |-> {}, categories |-> categories,
          s3Deleted |-> s3Deleted]
    ELSE [code |-> 204, out |-> {},
          categories |-> [i \in DOMAIN categories \ {id} |-> categories[i]],
          s3Deleted |-> deleteObjectsByUrls({categories[id].iconUrl}, s3ok)]

\* DELETE /categories/:id; s3ok: whether the icon's DeleteObject succeeds.
DELETE_categories_id(user, id, s3ok) ==
    IF id \notin DOMAIN categories
    THEN [code |-> 404, out |-> {}, categories |-> categories,
          s3Deleted |-> s3Deleted]
    ELSE IF user.role # "SUPER_ADMIN"
            /\ (user.storeId = NULL \/ user.storeId # categories[id].storeId)
    THEN [code |-> 403, out |-> {}, categories |-> categories,
          s3Deleted |-> s3Deleted]
    ELSE LET cleaned == deleteObjectsByUrls({categories[id].iconUrl}, s3ok)
         IN \* P2003, ProductCategory_categoryId_fkey
            IF \E l \in links : l.categoryId = id
            THEN [code |-> 409, out |-> {}, categories |-> categories,
                  s3Deleted |-> cleaned]
            ELSE [code |-> 204, out |-> {},
                  categories |-> [i \in DOMAIN categories \ {id} |-> categories[i]],
                  s3Deleted |-> cleaned]

(* ---------------------------- routes/products -------------------------- *)

\* productDto.partial(): every key of productDto, storeId among them, each
\* optional; an absent key stays undefined (no default is filled in).
productUpdateDto(raw) ==
    [sku |-> raw.sku, title |-> raw.title, slug |-> raw.slug,
     priceCents |-> raw.priceCents, stock |-> raw.stock,
     thumbnailUrl |-> raw.thumbnailUrl, galleryUrls |-> raw.galleryUrls,
     categoryIds |-> raw.categoryIds, storeId |-> raw.storeId]

\* Product_storeId_slug_key, for a row that is about to take (storeId, slug).
productSlugTaken(storeId, slug, except) ==
    \E i \in DOMAIN products \ except :
        products[i].storeId = storeId /\ products[i].slug = slug

\* productCategory.createMany succeeds: every category exists
\* (ProductCategory_categoryId_fkey) and no pair repeats (ProductCategory_pkey).
linksInsertable(categoryIds) ==
    /\ \A k \in DOMAIN categoryIds : categoryIds[k] \in DOMAIN categories
    /\ \A j, k \in DOMAIN categoryIds : j # k => categoryIds[j] # categoryIds[k]

linksOf(productId, categoryIds) ==
    {[productId |-> productId, categoryId |-> categoryIds[k]] :
        k \in DOMAIN categoryIds}

\* GET /products/:id (public)
GET_products_id(id) ==
    IF id \notin DOMAIN products THEN [code |-> 404, out |-> {}]
    ELSE [code |-> 200, out |-> {Row(id, products[id])}]

\* A mutant: the create that inserts the product and then its links with no
\* transaction around them.
POST_products_noTransaction(user, body) ==
    LET row == [storeId |-> body.storeId, sku |-> body.sku,
                title |-> body.title, slug |-> body.slug,
                priceCents |-> body.priceCents, currency |-> body.currency,
                stock |-> body.stock, active |-> TRUE,
                thumbnailUrl |-> IF body.thumbnailUrl = UNDEF THEN NULL
                                 ELSE body.thumbnailUrl,
                galleryUrls |-> body.galleryUrls]
    IN IF user.storeId = NULL \/ user.storeId # body.storeId
       THEN [code |-> 403, out |-> {}, products |-> products, links |-> links]
       ELSE IF body.storeId \notin Stores
       THEN [code |-> 404, out |-> {}, products |-> products, links |-> links]
       ELSE IF productSlugTaken(body.storeId, body.slug, {})
       THEN [code |-> 500, out |-> {}, products |-> products, links |-> links]
       ELSE IF ~linksInsertable(body.categoryIds)
       THEN [code |-> 500, out |-> {},
             products |-> (nextProduct :> row) @@ products, links |-> links]
       ELSE [code |-> 201, out |-> {Row(nextProduct, row)},
             products |-> (nextProduct :> row) @@ products,
             links |-> links \cup linksOf(nextProduct, body.categoryIds)]

\* POST /products
POST_products(user, body) ==
    LET row == [storeId |-> body.storeId, sku |-> body.sku,
                title |-> body.title, slug |-> body.slug,
                priceCents |-> body.priceCents, currency |-> body.currency,
                stock |-> body.stock, active |-> TRUE,
                thumbnailUrl |-> IF body.thumbnailUrl = UNDEF THEN NULL
                                 ELSE body.thumbnailUrl,
                galleryUrls |-> body.galleryUrls]
    IN IF user.storeId = NULL \/ user.storeId # body.storeId
       THEN [code |-> 403, out |-> {}, products |-> products, links |-> links]
       ELSE IF body.storeId \notin Stores
       THEN [code |-> 404, out |-> {}, products |-> products, links |-> links]
       \* any throw inside the transaction rolls it back and is answered 500
       ELSE IF \/ productSlugTaken(body.storeId, body.slug, {})
               \/ ~linksInsertable(body.categoryIds)
       THEN [code |-> 500, out |-> {}, products |-> products, links |-> links]
       ELSE [code |-> 201, out |-> {Row(nextProduct, row)},
             products |-> (nextProduct :> row) @@ products,
             links |-> links \cup linksOf(nextProduct, body.categoryIds)]

\* The data of tx.product.update in PUT /products/:id: the parsed body
\* without categoryIds; an undefined field is left as it is.
productUpdate(existing, body) ==
    [existing EXCEPT
       !.sku = IF body.sku # UNDEF THEN body.sku ELSE @,
       !.title = IF body.title # UNDEF THEN body.title ELSE @,
       !.slug = IF body.slug # UNDEF THEN body.slug ELSE @,
       !.priceCents = IF body.priceCents # UndefInt THEN body.priceCents ELSE @,
       !.stock = IF body.stock # UndefInt THEN body.stock ELSE @,
       !.thumbnailUrl = IF body.thumbnailUrl # UNDEF THEN body.thumbnailUrl ELSE @,
       !.galleryUrls = IF body.galleryUrls # UndefUrls THEN body.galleryUrls ELSE @,
       !.storeId = IF body.storeId # UNDEF THEN body.storeId ELSE @]

\* PUT /products/:id
PUT_products_id(user, id, raw) ==
    LET body == productUpdateDto(raw)
    IN IF id \notin DOMAIN products
       THEN [code |-> 404, out |-> {}, products |-> products, links |-> links]
       ELSE IF user.storeId = NULL \/ user.storeId # products[id].storeId
       THEN [code |-> 403, out |-> {}, products |-> products, links |-> links]
       ELSE LET row == productUpdate(products[id], body)
            IN \* Product_storeId_fkey, Product_storeId_slug_key and the link
               \* constraints throw inside the transaction: rolled back, 500
               IF \/ row.storeId \notin Stores
                  \/ productSlugTaken(row.storeId, row.slug, {id})
                  \/ (body.categoryIds # UndefIds /\ ~linksInsertable(body.categoryIds))
               THEN [code |-> 500, out |-> {}, products |-> products,
                     links |-> links]
               ELSE [code |-> 200, out |-> {Row(id, row)},
                     products |-> [products EXCEPT ![id] = row],
                     links |-> IF body.categoryIds = UndefIds THEN links
                               ELSE {l \in links : l.productId # id}
                                    \cup linksOf(id, body.categoryIds)]

\* The elements of a gallery, as the URLs to clean up.
Range(seq) == {seq[k] : k \in DOMAIN seq}

\* DELETE /products/:id; s3ok: whether the media DeleteObject(s) succeed.
DELETE_products_id(user, id, s3ok) ==
    IF id \notin DOMAIN products
    THEN [code |-> 404, out |-> {}, products |-> products, links |-> links,
          s3Deleted |-> s3Deleted]
    ELSE [code |-> 204, out |-> {},
          products |-> [i \in DOMAIN products \ {id} |-> products[i]],
          \* ProductCategory_productId_fkey ON DELETE CASCADE
          links |-> {l \in links : l.productId # id},
          s3Deleted |-> deleteObjectsByUrls(
              {products[id].thumbnailUrl} \cup Range(products[id].galleryUrls),
              s3ok)]

\* Array.prototype.filter(url => url !== imageUrl)
RECURSIVE filterNot(_, _)
filterNot(seq, x) ==
    IF seq = <<>> THEN <<>>
    ELSE IF Head(seq) = x THEN filterNot(Tail(seq), x)
         ELSE <<Head(seq)>> \o filterNot(Tail(seq), x)

\* DELETE /products/:id/images
DELETE_products_id_images(user, id, body, s3ok) ==
    IF body.imageUrl = UNDEF
    THEN [code |-> 400, out |-> {}, products |-> products,
          s3Deleted |-> s3Deleted]
    ELSE IF id \notin DOMAIN products
    THEN [code |-> 404, out |-> {}, products |-> products,
          s3Deleted |-> s3Deleted]
    ELSE LET row == [products[id] EXCEPT
                       !.galleryUrls = filterNot(@, body.imageUrl)]
         IN [code |-> 200, out |-> {Row(id, row)},
             products |-> [products EXCEPT ![id] = row],
             s3Deleted |-> deleteObjectsByUrls({body.imageUrl}, s3ok)]

\* PATCH /products/:id/status; prisma.product.update of a missing row throws.
PATCH_products_id_status(user, id, body) ==
    IF body.active \notin {"true", "false"}
    THEN [code |-> 400, out |-> {}, products |-> products]
    ELSE IF id \notin DOMAIN products
    THEN [code |-> 500, out |-> {}, products |-> products]
    ELSE LET row == [products[id] EXCEPT !.active = (body.active = "true")]
         IN [code |-> 200, out |-> {Row(id, row)},
             products |-> [products EXCEPT ![id] = row]]

(* ------------------------ routes/orders, storefront -------------------- *)

\* A mutant: the snapshot that takes the line's amount for the unit price.
storefrontItem_linePrice(it) ==
    LET p == products[it.productId]
    IN [productId |-> it.productId, quantity |-> it.quantity,
        unitPriceCents |-> p.priceCents * it.quantity,
        lineTotalCents |-> p.priceCents * it.quantity,
        productTitle |-> p.title, productSku |-> p.sku,
        productImageUrl |-> p.thumbnailUrl]

\* items.create of the storefront channel: price and metadata of the product.
storefrontItem(it) ==
    LET p == products[it.productId]
    IN [productId |-> it.productId, quantity |-> it.quantity,
        unitPriceCents |-> p.priceCents,
        lineTotalCents |-> p.priceCents * it.quantity,
        productTitle |-> p.title, productSku |-> p.sku,
        productImageUrl |-> p.thumbnailUrl]

\* The two validation errors of POST /storefront/orders.
NoLongerExist == [error |-> "One or more products no longer exist"]

SameStoreOnly ==
    [error |-> "All products in an order must belong to the same store."]

\* A mutant: the stores of the products are not looked at.
storeIds_unread(found) == {}

\* new Set(products.map(p => p.storeId))
storeIds(found) == {products[i].storeId : i \in found}

\* storefrontCreateOrderDto.parse succeeds.
storefrontCreateOrderDto(body) ==
    /\ body.deliveryCents >= 0
    /\ body.taxCents >= 0
    /\ Len(body.items) >= 1
    /\ \A k \in DOMAIN body.items : body.items[k].quantity > 0

RECURSIVE sumLineTotals(_)
sumLineTotals(items) ==
    IF items = <<>> THEN 0
    ELSE Head(items).lineTotalCents + sumLineTotals(Tail(items))

\* POST /storefront/orders (public); first: the row findMany returns first.
POST_storefront_orders(body, first) ==
    LET productIds == [k \in DOMAIN body.items |-> body.items[k].productId]
        found == Range(productIds) \cap DOMAIN products
    IN \* storefrontCreateOrderDto.parse throws: the reply is 500
       IF ~storefrontCreateOrderDto(body)
       THEN [code |-> 500, out |-> {}, orders |-> orders,
             orderItems |-> orderItems]
       \* products.length !== productIds.length
       ELSE IF Cardinality(found) # Len(productIds)
       THEN [code |-> 400, out |-> {NoLongerExist}, orders |-> orders,
             orderItems |-> orderItems]
       ELSE IF Cardinality(storeIds(found)) > 1
       THEN [code |-> 400, out |-> {SameStoreOnly}, orders |-> orders,
             orderItems |-> orderItems]
       ELSE LET itemCreates == [k \in DOMAIN body.items |->
                                   storefrontItem(body.items[k])]
                subtotalCents == sumLineTotals(itemCreates)
                row == [storeId |-> products[first].storeId,
                        status |-> "PENDING",
                        paymentMethod |-> "COD",
                        subtotalCents |-> subtotalCents,
                        deliveryCents |-> body.deliveryCents,
                        taxCents |-> body.taxCents,
                        totalCents |-> subtotalCents + body.deliveryCents
                                       + body.taxCents,
                        currency |-> IF products[first].currency = ""
                                     THEN "BDT" ELSE products[first].currency]
            IN [code |-> 201, out |-> {Row(nextOrder, row @@ [items |-> itemCreates])},
                orders |-> (nextOrder :> row) @@ orders,
                orderItems |-> (nextOrder :> itemCreates) @@ orderItems]

(* ------------------------------- requests ------------------------------ *)

\* The response to a request, kept until the request is done; the requests
\* waiting between two awaits stay where they are.
Answer(op, cred, id, req, r) ==
    /\ last' = [op |-> op, cred |-> cred, id |-> id, req |-> req,
                code |-> r.code, out |-> r.out]
    /\ reading' = reading
    /\ placing' = placing

\* The reply of the admin preHandler when it ends the request.
Refused(cred) == [code |-> admin(cred), out |-> {}]

ListOrders(cred, query) ==
    /\ last = Idle
    /\ Answer("GET /orders", cred, 0, query,
              IF admin(cred) # 0 THEN Refused(cred) ELSE GET_orders(cred, query))
    /\ UNCHANGED tables

GetOrder(cred, id) ==
    /\ last = Idle
    /\ Answer("GET /orders/:id", cred, id, NoPayload,
              IF admin(cred) # 0 THEN Refused(cred) ELSE GET_orders_id(cred, id))
    /\ UNCHANGED tables

CreateOrder(cred, body) ==
    /\ last = Idle
    /\ \E r \in {IF admin(cred) # 0 THEN Refused(cred) @@ [orders |-> orders,
                                                   orderItems |-> orderItems]
                ELSE POST_orders(cred, body)} :
          /\ r.code = 201 => RowsInserted < MaxRows
          /\ Answer("POST /orders", cred, 0, body, r)
          /\ orders' = r.orders
          /\ orderItems' = r.orderItems
          /\ nextOrder' = IF r.code = 201 THEN nextOrder + 1 ELSE nextOrder
    /\ UNCHANGED <<categories, products, links, s3Deleted, nextCategory, nextProduct>>

StorefrontOrder(body, first, rows) ==
    /\ last = Idle
    /\ \E r \in {POST_storefront_orders(body, first)} :
          /\ r.code = 201 => RowsInserted < rows
          /\ Answer("POST /storefront/orders", NoCred, 0, body, r)
          /\ orders' = r.orders
          /\ orderItems' = r.orderItems
          /\ nextOrder' = IF r.code = 201 THEN nextOrder + 1 ELSE nextOrder
    /\ UNCHANGED <<categories, products, links, s3Deleted, nextCategory, nextProduct>>

CreateStorefrontOrder(body, first) == StorefrontOrder(body, first, MaxRows)

UpdateOrder(cred, id, raw) ==
    /\ last = Idle
    /\ \E r \in {IF admin(cred) # 0 THEN Refused(cred) @@ [orders |-> orders]
                ELSE PUT_orders_id(cred, id, raw)} :
          /\ Answer("PUT /orders/:id", cred, id, raw, r)
          /\ orders' = r.orders
    /\ UNCHANGED <<orderItems, categories, products, links, s3Deleted,
                   nextOrder, nextCategory, nextProduct>>

DeleteOrder(cred, id) ==
    /\ last = Idle
    /\ \E r \in {IF admin(cred) # 0 THEN Refused(cred) @@ [orders |-> orders,
                                                   orderItems |-> orderItems]
                ELSE DELETE_orders_id(cred, id)} :
          /\ Answer("DELETE /orders/:id", cred, id, NoPayload, r)
          /\ orders' = r.orders
          /\ orderItems' = r.orderItems
    /\ UNCHANGED <<categories, products, links, s3Deleted,
                   nextOrder, nextCategory, nextProduct>>

PatchOrderStatus(cred, id, body) ==
    /\ last = Idle
    /\ \E r \in {IF admin(cred) # 0 THEN Refused(cred) @@ [orders |-> orders]
                ELSE PATCH_orders_id_status(cred, id, body)} :
          /\ Answer("PATCH /orders/:id/status", cred, id, body, r)
          /\ orders' = r.orders
    /\ UNCHANGED <<orderItems, categories, products, links, s3Deleted,
                   nextOrder, nextCategory, nextProduct>>

ListCategories(cred, query) ==
    /\ last = Idle
    /\ Answer("GET /categories", cred, 0, query,
              IF admin(cred) # 0 THEN Refused(cred)
              ELSE GET_categories(cred, query))
    /\ UNCHANGED tables

GetCategory(cred, id) ==
    /\ last = Idle
    /\ Answer("GET /categories/:id", cred, id, NoPayload,
              IF admin(cred) # 0 THEN Refused(cred)
              ELSE GET_categories_id(cred, id))
    /\ UNCHANGED tables

CreateCategory(cred, body) ==
    /\ last = Idle
    /\ \E r \in {IF admin(cred) # 0
                THEN Refused(cred) @@ [categories |-> categories]
                ELSE POST_categories(cred, body)} :
          /\ r.code = 201 => RowsInserted < MaxRows
          /\ Answer("POST /categories", cred, 0, body, r)
          /\ categories' = r.categories
          /\ nextCategory' = IF r.code = 201 THEN nextCategory + 1
                             ELSE nextCategory
    /\ UNCHANGED <<orders, orderItems, products, links, s3Deleted, nextOrder, nextProduct>>

UpdateCategory(cred, id, raw) ==
    /\ last = Idle
    /\ \E r \in {IF admin(cred) # 0
                THEN Refused(cred) @@ [categories |-> categories]
                ELSE PUT_categories_id(cred, id, raw)} :
          /\ Answer("PUT /categories/:id", cred, id, raw, r)
          /\ categories' = r.categories
    /\ UNCHANGED <<orders, orderItems, products, links, s3Deleted,
                   nextOrder, nextCategory, nextProduct>>

DeleteCategory(cred, id, s3ok) ==
    /\ last = Idle
    /\ \E r \in {IF admin(cred) # 0
                THEN Refused(cred) @@ [categories |-> categories,
                                       s3Deleted |-> s3Deleted]
                ELSE DELETE_categories_id(cred, id, s3ok)} :
          /\ Answer("DELETE /categories/:id", cred, id, NoPayload, r)
          /\ categories' = r.categories
          /\ s3Deleted' = r.s3Deleted
    /\ UNCHANGED <<orders, orderItems, products, links, nextOrder, nextCategory, nextProduct>>

GetProduct(id) ==
    /\ last = Idle
    /\ Answer("GET /products/:id", NoCred, id, NoPayload, GET_products_id(id))
    /\ UNCHANGED tables

CreateProduct(cred, body) ==
    /\ last = Idle
    /\ \E r \in {IF admin(cred) # 0
                THEN Refused(cred) @@ [products |-> products, links |-> links]
                ELSE POST_products(cred, body)} :
          /\ r.code = 201 => RowsInserted < MaxRows
          /\ Answer("POST /products", cred, 0, body, r)
          /\ products' = r.products
          /\ links' = r.links
          /\ nextProduct' = IF r.code = 201 THEN nextProduct + 1 ELSE nextProduct
    /\ UNCHANGED <<orders, orderItems, categories, s3Deleted, nextOrder, nextCategory>>

\* A mutant: order items that read the product's price instead of keeping
\* their own copy.
UpdateProduct_liveItems(cred, id, raw) ==
    /\ last = Idle
    /\ \E r \in {IF admin(cred) # 0
                THEN Refused(cred) @@ [products |-> products, links |-> links]
                ELSE PUT_products_id(cred, id, raw)} :
          /\ Answer("PUT /products/:id", cred, id, raw, r)
          /\ products' = r.products
          /\ links' = r.links
          /\ orderItems' =
                [i \in DOMAIN orderItems |->
                   [k \in DOMAIN orderItems[i] |->
                      LET it == orderItems[i][k]
                      IN IF it.productId \in DOMAIN r.products
                         THEN [it EXCEPT !.unitPriceCents =
                                  r.products[it.productId].priceCents]
                         ELSE it]]
    /\ UNCHANGED <<orders, categories, s3Deleted,
                   nextOrder, nextCategory, nextProduct>>

UpdateProduct(cred, id, raw) ==
    /\ last = Idle
    /\ \E r \in {IF admin(cred) # 0
                THEN Refused(cred) @@ [products |-> products, links |-> links]
                ELSE PUT_products_id(cred, id, raw)} :
          /\ Answer("PUT /products/:id", cred, id, raw, r)
          /\ products' = r.products
          /\ links' = r.links
    /\ UNCHANGED <<orders, orderItems, categories, s3Deleted,
                   nextOrder, nextCategory, nextProduct>>

DeleteProduct(cred, id, s3ok) ==
    /\ last = Idle
    /\ \E r \in {IF admin(cred) # 0
                THEN Refused(cred) @@ [products |-> products, links |-> links,
                                       s3Deleted |-> s3Deleted]
                ELSE DELETE_products_id(cred, id, s3ok)} :
          /\ Answer("DELETE /products/:id", cred, id, NoPayload, r)
          /\ products' = r.products
          /\ links' = r.links
          /\ s3Deleted' = r.s3Deleted
    /\ UNCHANGED <<orders, orderItems, categories, nextOrder, nextCategory, nextProduct>>

DeleteProductImage(cred, id, body, s3ok) ==
    /\ last = Idle
    /\ \E r \in {IF admin(cred) # 0
                THEN Refused(cred) @@ [products |-> products,
                                       s3Deleted |-> s3Deleted]
                ELSE DELETE_products_id_images(cred, id, body, s3ok)} :
          /\ Answer("DELETE /products/:id/images", cred, id, body, r)
          /\ products' = r.products
          /\ s3Deleted' = r.s3Deleted
    /\ UNCHANGED <<orders, orderItems, categories, links, nextOrder, nextCategory, nextProduct>>

PatchProductStatus(cred, id, body) ==
    /\ last = Idle
    /\ \E r \in {IF admin(cred) # 0
                THEN Refused(cred) @@ [products |-> products]
                ELSE PATCH_products_id_status(cred, id, body)} :
          /\ Answer("PATCH /products/:id/status", cred, id, body, r)
          /\ products' = r.products
    /\ UNCHANGED <<orders, orderItems, categories, links, s3Deleted,
                   nextOrder, nextCategory, nextProduct>>

\* The reply is sent; req.user and the parsed body go with the request.
\* prisma.category.update of PUT /categories/:id and the catch around it,
\* run with the row findUnique returned earlier.
category_update(id, existing, body) ==
    \* P2025: the row is gone
    IF id \notin DOMAIN categories
    THEN [code |-> 404, out |-> {}, categories |-> categories]
    ELSE LET data == categoryUpdate(existing, body)
             row == [categories[id] EXCEPT
                        !.title = data.title, !.slug = data.slug,
                        !.description = data.description,
                        !.iconUrl = data.iconUrl]
         IN \* P2002
            IF categorySlugTaken(row.storeId, row.slug, {id})
            THEN [code |-> 409, out |-> {}, categories |-> categories]
            ELSE [code |-> 200, out |-> {Row(id, row)},
                  categories |-> [categories EXCEPT ![id] = row]]

\* PUT /categories/:id up to the await of prisma.category.update: the guard,
\* findUnique and the tenant check. A request that passes them waits for its
\* update while other requests run.
ReadCategory(cred, id, raw) ==
    /\ last = Idle
    /\ LET r == IF admin(cred) # 0
                THEN Refused(cred) @@ [categories |-> categories]
                ELSE PUT_categories_id(cred, id, raw)
       IN IF r.code \in {401, 403, 404}
          THEN Answer("PUT /categories/:id", cred, id, raw, r)
          ELSE /\ Cardinality(reading) < MaxReading
               /\ reading' = reading \cup
                     {[cred |-> cred, id |-> id, req |-> raw,
                       existing |-> categories[id]]}
               /\ last' = last
               /\ placing' = placing
    /\ UNCHANGED tables

\* PUT /categories/:id from prisma.category.update to the reply.
WriteCategory(p) ==
    /\ last = Idle
    /\ p \in reading
    /\ \E r \in {category_update(p.id, p.existing, categoryUpdateDto(p.req))} :
          /\ last' = [op |-> "PUT /categories/:id", cred |-> p.cred,
                      id |-> p.id, req |-> p.req, code |-> r.code,
                      out |-> r.out]
          /\ categories' = r.categories
    /\ reading' = reading \ {p}
    /\ UNCHANGED <<orders, orderItems, products, links, s3Deleted,
                   nextOrder, nextCategory, nextProduct, placing>>

\* A mutant: a create that reads each product's price again for the items
\* and keeps the amounts computed from the first read.
order_create_rereadPrice(p, fkey) ==
    LET items == [k \in DOMAIN p.items |->
                    LET it == p.items[k]
                    IN IF it.productId \in DOMAIN products
                       THEN [it EXCEPT !.unitPriceCents =
                                products[it.productId].priceCents]
                       ELSE it]
    IN [code |-> 201, out |-> {Row(nextOrder, p.row @@ [items |-> items])},
        orders |-> (nextOrder :> p.row) @@ orders,
        orderItems |-> (nextOrder :> items) @@ orderItems]

\* A mutant: a create that refuses a quantity the stock does not cover.
order_create_checkStock(p, fkey) ==
    IF \E k \in DOMAIN p.items :
          /\ p.items[k].productId \in DOMAIN products
          /\ products[p.items[k].productId].stock < p.items[k].quantity
    THEN [code |-> 409, out |-> {}, orders |-> orders,
          orderItems |-> orderItems]
    ELSE [code |-> 201, out |-> {Row(nextOrder, p.row @@ [items |-> p.items])},
          orders |-> (nextOrder :> p.row) @@ orders,
          orderItems |-> (nextOrder :> p.items) @@ orderItems]

\* prisma.order.create of POST /storefront/orders with the data built from
\* the rows findMany returned; fkey: whether OrderItem.productId is a foreign
\* key the database enforces, in which case a product deleted since the read
\* makes the create throw (nothing catches it: 500, nothing written).
order_create(p, fkey) ==
    IF fkey /\ \E k \in DOMAIN p.items :
                  p.items[k].productId \notin DOMAIN products
    THEN [code |-> 500, out |-> {}, orders |-> orders,
          orderItems |-> orderItems]
    ELSE [code |-> 201, out |-> {Row(nextOrder, p.row @@ [items |-> p.items])},
          orders |-> (nextOrder :> p.row) @@ orders,
          orderItems |-> (nextOrder :> p.items) @@ orderItems]

\* POST /storefront/orders up to the await of prisma.order.create: parse,
\* findMany, the two checks and the order data built from the rows read. A
\* request that passes them waits for its create while other requests run.
ReadCatalog(body, first) ==
    /\ last = Idle
    /\ LET r == POST_storefront_orders(body, first)
       IN IF r.code # 201
          THEN Answer("POST /storefront/orders", NoCred, 0, body, r)
          ELSE LET data == (CHOOSE o \in r.out : TRUE).row
               IN /\ Cardinality(placing) < MaxPlacing
                  /\ placing' = placing \cup
                        {[req |-> body,
                          seen |-> [i \in {body.items[k].productId :
                                             k \in DOMAIN body.items}
                                    |-> products[i]],
                          row |-> [f \in DOMAIN data \ {"items"} |-> data[f]],
                          items |-> data.items]}
                  /\ last' = last
                  /\ reading' = reading
    /\ UNCHANGED tables

\* POST /storefront/orders from prisma.order.create to the reply.
WriteOrder(p, fkey) ==
    /\ last = Idle
    /\ p \in placing
    /\ \E r \in {order_create(p, fkey)} :
          /\ r.code = 201 => RowsInserted < MaxStorefrontRows
          /\ last' = [op |-> "POST /storefront/orders", cred |-> NoCred,
                      id |-> 0, req |-> p.req, code |-> r.code, out |-> r.out]
          /\ orders' = r.orders
          /\ orderItems' = r.orderItems
          /\ nextOrder' = IF r.code = 201 THEN nextOrder + 1 ELSE nextOrder
    /\ placing' = placing \ {p}
    /\ UNCHANGED <<categories, products, links, s3Deleted, nextCategory,
                   nextProduct, reading>>

RequestDone ==
    /\ last # Idle
    /\ last' = Idle
    /\ UNCHANGED <<tables, reading, placing>>

(* --------------------------- the requests taken ------------------------ *)

\* Principals the admin guard lets through, and credentials it refuses.
Admins ==
    {Principal("SUPER_ADMIN", NULL), Principal("ADMIN", "S1"),
     Principal("ADMIN", NULL), Principal("STAFF", "S2")}

Outsiders == {NoCred, BadCred, Principal("CUSTOMER", "S1")}

Ids == 1 .. MaxRows

StoreQueries == [storeId : {UNDEF, " ", " S1 ", "S2"}, status : {UNDEF}, q : {UNDEF}]

OrderQueries ==
    StoreQueries \cup {[storeId |-> UNDEF, status |-> "PAID", q |-> UNDEF]}

CategoryQueries ==
    StoreQueries \cup {[storeId |-> UNDEF, status |-> UNDEF, q |-> "b"]}

OneLine ==
    [productId |-> 1, quantity |-> 1, unitPriceCents |-> 10,
     productTitle |-> "t1", productSku |-> "sku1", productImageUrl |-> NULL]

OrderBodies ==
    {[storeId |-> s, subtotalCents |-> 10, deliveryCents |-> 0, taxCents |-> 0,
      totalCents |-> 10, currency |-> "BDT", status |-> UNDEF,
      paymentMethod |-> "COD", items |-> <<OneLine>>] :
        s \in {UNDEF, "S1", "S2", GhostStore}}

OrderUpdates ==
    [storeId : {UNDEF, "S1", "S2"}, status : {"PAID"},
     deliveryCents : {UndefInt}, taxCents : {UndefInt}, totalCents : {UndefInt}]

StatusPatches == [storeId : {UNDEF, "S1"}, status : {"PAID"}]

StorefrontBodies ==
    {[deliveryCents |-> 0, taxCents |-> 0, items |-> its] :
        its \in {<<[productId |-> i, quantity |-> 1]>> : i \in Ids}
                \cup {<<[productId |-> 1, quantity |-> 1],
                        [productId |-> 2, quantity |-> 2]>>}}

CategoryBodies ==
    [storeId : {UNDEF, "S1", "S2", GhostStore}, title : {"t1"}, slug : {"a", "b"},
     description : {UNDEF}, iconUrl : {UNDEF}]

CategoryUpdates ==
    [storeId : {UNDEF, "S1", "S2"}, title : {UNDEF}, slug : {"b"},
     description : {UNDEF}, iconUrl : {UNDEF}]

ProductBodies ==
    [storeId : {"S1", "S2", GhostStore}, sku : {"sku1"}, title : {"t1"},
     slug : {"p"}, priceCents : {10}, currency : {"BDT"}, stock : {1},
     thumbnailUrl : {UNDEF}, galleryUrls : {<<"https://b/g1">>},
     categoryIds : {<<>>, <<1>>}]

ProductUpdates ==
    LET blank == [storeId |-> UNDEF, sku |-> UNDEF, title |-> UNDEF,
                  slug |-> UNDEF, priceCents |-> UndefInt, stock |-> UndefInt,
                  thumbnailUrl |-> UNDEF, galleryUrls |-> UndefUrls,
                  categoryIds |-> UndefIds]
    IN {[blank EXCEPT !.storeId = s] : s \in {UNDEF, "S1", "S2", GhostStore}}
       \cup {[blank EXCEPT !.categoryIds = <<1>>]}

ImageBodies == [imageUrl : {UNDEF, "https://b/g1"}]

ActiveBodies == [active : {UNDEF, "false"}]

(* ---------------------------- specification ---------------------------- *)

Init ==
    /\ orders = <<>>
    /\ orderItems = <<>>
    /\ categories = <<>>
    /\ products = <<>>
    /\ links = {}
    /\ s3Deleted = {}
    /\ nextOrder = 1
    /\ nextCategory = 1
    /\ nextProduct = 1
    /\ last = Idle
    /\ reading = {}
    /\ placing = {}

\* Every credential a request can carry.
Callers == Admins \cup Outsiders

\* The product ids a storefront body names.
productIdsOf(body) ==
    Range([k \in DOMAIN body.items |-> body.items[k].productId])

\* One request at a time is taken from the listener; each route is one action.
Next ==
    \/ /\ last = Idle
       /\ \E cred \in Callers, query \in OrderQueries : ListOrders(cred, query)
    \/ /\ last = Idle
       /\ \E cred \in Callers, id \in Ids : GetOrder(cred, id)
    \/ /\ last = Idle
       /\ \E cred \in Callers, body \in OrderBodies : CreateOrder(cred, body)
    \/ /\ last = Idle
       /\ \E body \in StorefrontBodies :
             \/ \E first \in productIdsOf(body) \cap DOMAIN products :
                   CreateStorefrontOrder(body, first)
             \/ /\ productIdsOf(body) \cap DOMAIN products = {}
                /\ CreateStorefrontOrder(body, 0)
    \/ /\ last = Idle
       /\ \E cred \in Callers, id \in Ids, raw \in OrderUpdates :
             UpdateOrder(cred, id, raw)
    \/ /\ last = Idle
       /\ \E cred \in Callers, id \in Ids : DeleteOrder(cred, id)
    \/ /\ last = Idle
       /\ \E cred \in Callers, id \in Ids, body \in StatusPatches :
             PatchOrderStatus(cred, id, body)
    \/ /\ last = Idle
       /\ \E cred \in Callers, query \in CategoryQueries :
             ListCategories(cred, query)
    \/ /\ last = Idle
       /\ \E cred \in Callers, id \in Ids : GetCategory(cred, id)
    \/ /\ last = Idle
       /\ \E cred \in Callers, body \in CategoryBodies : CreateCategory(cred, body)
    \/ /\ last = Idle
       /\ \E cred \in Callers, id \in Ids, raw \in CategoryUpdates :
             UpdateCategory(cred, id, raw)
    \/ /\ last = Idle
       /\ \E cred \in Callers, id \in Ids, s3ok \in BOOLEAN :
             DeleteCategory(cred, id, s3ok)
    \/ /\ last = Idle
       /\ \E id \in Ids : GetProduct(id)
    \/ /\ last = Idle
       /\ \E cred \in Callers, body \in ProductBodies : CreateProduct(cred, body)
    \/ /\ last = Idle
       /\ \E cred \in Callers, id \in Ids, raw \in ProductUpdates :
             UpdateProduct(cred, id, raw)
    \/ /\ last = Idle
       /\ \E cred \in Callers, id \in Ids, s3ok \in BOOLEAN :
             DeleteProduct(cred, id, s3ok)
    \/ /\ last = Idle
       /\ \E cred \in Callers, id \in Ids, body \in ImageBodies, s3ok \in BOOLEAN :
             DeleteProductImage(cred, id, body, s3ok)
    \/ /\ last = Idle
       /\ \E cred \in Callers, id \in Ids, body \in ActiveBodies :
             PatchProductStatus(cred, id, body)
    \/ RequestDone

Spec == Init /\ [][Next]_vars

(* ------------------- specification of the order engine ----------------- *)

\* The requests that reach the order engine: the catalog it reads, the two
\* creation channels with payloads whose money fields agree and disagree, and
\* the updates of an order.
EngineCallers ==
    {Principal("SUPER_ADMIN", NULL), Principal("ADMIN", "S1"),
     Principal("STAFF", "S2")}

EngineStoreCallers == {Principal("ADMIN", "S1"), Principal("STAFF", "S2")}

EngineProductBodies ==
    LET base == [storeId |-> "S1", sku |-> "sku1", title |-> "t1", slug |-> "p",
                 priceCents |-> 1000, currency |-> "BDT", stock |-> 1,
                 thumbnailUrl |-> "https://b/t1", galleryUrls |-> <<>>,
                 categoryIds |-> <<>>]
    IN {base,
        [base EXCEPT !.sku = "sku2", !.title = "t2", !.slug = "q",
                     !.priceCents = 500, !.currency = "USD",
                     !.thumbnailUrl = UNDEF],
        [base EXCEPT !.storeId = "S2", !.priceCents = 700]}

EngineProductUpdates ==
    {[storeId |-> UNDEF, sku |-> "sku9", title |-> "t9", slug |-> UNDEF,
      priceCents |-> 1200, stock |-> UndefInt,
      thumbnailUrl |-> "https://b/t9", galleryUrls |-> UndefUrls,
      categoryIds |-> UndefIds]}

TwoOfFive == [OneLine EXCEPT !.quantity = 2, !.unitPriceCents = 5]

EngineOrderBodies ==
    LET base == [storeId |-> "S1", subtotalCents |-> 10, deliveryCents |-> 0,
                 taxCents |-> 0, totalCents |-> 10, currency |-> "BDT",
                 status |-> UNDEF, paymentMethod |-> "COD",
                 items |-> <<TwoOfFive>>]
    IN {base,
        [base EXCEPT !.items = <<>>],
        [base EXCEPT !.items = <<[TwoOfFive EXCEPT !.quantity = 0]>>],
        [base EXCEPT !.subtotalCents = 0],
        [base EXCEPT !.subtotalCents = 7, !.totalCents = 7],
        [base EXCEPT !.totalCents = 99],
        [base EXCEPT !.storeId = GhostStore]}

EngineStorefrontBodies ==
    {[deliveryCents |-> 0, taxCents |-> 0, items |-> <<>>],
     [deliveryCents |-> 60, taxCents |-> 0,
      items |-> <<[productId |-> 1, quantity |-> 2]>>],
     [deliveryCents |-> 0, taxCents |-> 0,
      items |-> <<[productId |-> 2, quantity |-> 1]>>],
     [deliveryCents |-> 0, taxCents |-> 0,
      items |-> <<[productId |-> 1, quantity |-> 1],
                  [productId |-> 2, quantity |-> 1]>>],
     [deliveryCents |-> 0, taxCents |-> 0,
      items |-> <<[productId |-> 1, quantity |-> 1],
                  [productId |-> 1, quantity |-> 1]>>]}

EngineOrderUpdates ==
    {[storeId |-> UNDEF, status |-> UNDEF, deliveryCents |-> 5,
      taxCents |-> UndefInt, totalCents |-> UndefInt],
     [storeId |-> UNDEF, status |-> "FULFILLED", deliveryCents |-> UndefInt,
      taxCents |-> UndefInt, totalCents |-> UndefInt]}

EngineStatusPatches == [storeId : {UNDEF}, status : {"PENDING", "PAID"}]

EngineNext ==
    \/ /\ last = Idle
       /\ \E cred \in EngineStoreCallers, body \in EngineProductBodies :
             CreateProduct(cred, body)
    \/ /\ last = Idle
       /\ \E cred \in EngineStoreCallers, id \in Ids, raw \in EngineProductUpdates :
             UpdateProduct(cred, id, raw)
    \/ /\ last = Idle
       /\ \E cred \in EngineStoreCallers, id \in Ids : DeleteProduct(cred, id, TRUE)
    \/ /\ last = Idle
       /\ \E cred \in EngineCallers, body \in EngineOrderBodies :
             CreateOrder(cred, body)
    \/ /\ last = Idle
       /\ \E body \in EngineStorefrontBodies :
             \/ \E first \in productIdsOf(body) \cap DOMAIN products :
                   CreateStorefrontOrder(body, first)
             \/ /\ productIdsOf(body) \cap DOMAIN products = {}
                /\ CreateStorefrontOrder(body, 0)
    \/ /\ last = Idle
       /\ \E cred \in EngineStoreCallers, id \in Ids, raw \in EngineOrderUpdates :
             UpdateOrder(cred, id, raw)
    \/ /\ last = Idle
       /\ \E cred \in EngineStoreCallers, id \in Ids, body \in EngineStatusPatches :
             PatchOrderStatus(cred, id, body)
    \/ /\ last = Idle
       /\ \E cred \in EngineStoreCallers, id \in Ids : DeleteOrder(cred, id)
    \/ RequestDone

EngineSpec == Init /\ [][EngineNext]_vars

(* ------------------ specification of the storefront channel ------------ *)

StorefrontNext ==
    \/ /\ last = Idle
       /\ \E cred \in EngineStoreCallers, body \in EngineProductBodies :
             CreateProduct(cred, body)
    \/ /\ last = Idle
       /\ \E cred \in EngineStoreCallers, id \in Ids, raw \in EngineProductUpdates :
             UpdateProduct(cred, id, raw)
    \/ /\ last = Idle
       /\ \E cred \in EngineStoreCallers, id \in Ids : DeleteProduct(cred, id, TRUE)
    \/ /\ last = Idle
       /\ \E body \in EngineStorefrontBodies :
             \/ \E first \in productIdsOf(body) \cap DOMAIN products :
                   StorefrontOrder(body, first, MaxStorefrontRows)
             \/ /\ productIdsOf(body) \cap DOMAIN products = {}
                /\ StorefrontOrder(body, 0, MaxStorefrontRows)
    \/ RequestDone

StorefrontSpec == Init /\ [][StorefrontNext]_vars

(* ------- specification of storefront orders racing catalog changes ----- *)

\* Storefront orders interleaved at their await with each other and with the
\* update and the delete of the products they name.
PlacingProductBodies ==
    {[storeId |-> "S1", sku |-> "sku1", title |-> "t1", slug |-> "p",
      priceCents |-> 1000, currency |-> "BDT", stock |-> st,
      thumbnailUrl |-> "https://b/t1", galleryUrls |-> <<>>,
      categoryIds |-> <<>>] : st \in {0, 1}}

PlacingBodies ==
    {[deliveryCents |-> 60, taxCents |-> 0,
      items |-> <<[productId |-> 1, quantity |-> q]>>] : q \in {1, 2}}

PlacingNext ==
    \/ /\ last = Idle
       /\ \E body \in PlacingProductBodies :
             CreateProduct(Principal("ADMIN", "S1"), body)
    \/ /\ last = Idle
       /\ \E id \in Ids, raw \in EngineProductUpdates :
             UpdateProduct(Principal("ADMIN", "S1"), id, raw)
    \/ /\ last = Idle
       /\ \E id \in Ids : DeleteProduct(Principal("ADMIN", "S1"), id, TRUE)
    \/ /\ last = Idle
       /\ \E body \in PlacingBodies :
             \/ \E first \in productIdsOf(body) \cap DOMAIN products :
                   ReadCatalog(body, first)
             \/ /\ productIdsOf(body) \cap DOMAIN products = {}
                /\ ReadCatalog(body, 0)
    \/ /\ last = Idle
       /\ \E p \in placing, fkey \in BOOLEAN : WriteOrder(p, fkey)
    \/ /\ last = Idle
       /\ \E body \in {b \in OrderBodies : b.storeId = "S1"} :
             CreateOrder(Principal("ADMIN", "S1"), body)
    \/ RequestDone

PlacingSpec == Init /\ [][PlacingNext]_vars

(* ---------------- specification of the category routes ----------------- *)

\* The category routes with the requests interleaved at their awaits: create
\* and delete have one statement that writes, update reads and then writes.
SlugCallers == {Principal("SUPER_ADMIN", NULL), Principal("ADMIN", "S1")}

SlugBodies ==
    [storeId : {"S1", "S2"}, title : {"t1"}, slug : {"a", "b"},
     description : {UNDEF}, iconUrl : {UNDEF}]

SlugUpdates ==
    {[storeId |-> UNDEF, title |-> UNDEF, slug |-> "c", description |-> UNDEF,
      iconUrl |-> UNDEF]}

CategoryNext ==
    \/ /\ last = Idle
       /\ \E cred \in SlugCallers, body \in SlugBodies :
             CreateCategory(cred, body)
    \/ /\ last = Idle
       /\ \E cred \in SlugCallers, id \in Ids, raw \in SlugUpdates :
             ReadCategory(cred, id, raw)
    \/ /\ last = Idle
       /\ \E p \in reading : WriteCategory(p)
    \/ /\ last = Idle
       /\ \E cred \in SlugCallers, id \in Ids : DeleteCategory(cred, id, TRUE)
    \/ RequestDone

CategorySpec == Init /\ [][CategoryNext]_vars

(* ------------- specification of categories that have an icon ----------- *)

\* Categories created with and without an icon, linked to products by the
\* product create, and deleted while linked and while free.
IconCallers == {Principal("ADMIN", "S1"), Principal("STAFF", "S2")}

IconBodies ==
    [storeId : {"S1", "S2"}, title : {"t1"}, slug : {"a"},
     description : {UNDEF}, iconUrl : {UNDEF, "https://b/i1"}]

IconNext ==
    \/ /\ last = Idle
       /\ \E cred \in IconCallers, body \in IconBodies :
             CreateCategory(cred, body)
    \/ /\ last = Idle
       /\ \E cred \in IconCallers, body \in ProductBodies :
             CreateProduct(cred, body)
    \/ /\ last = Idle
       /\ \E cred \in IconCallers, id \in Ids : DeleteProduct(cred, id, TRUE)
    \/ /\ last = Idle
       /\ \E cred \in IconCallers, id \in Ids, s3ok \in BOOLEAN :
             DeleteCategory(cred, id, s3ok)
    \/ RequestDone

IconSpec == Init /\ [][IconNext]_vars

(* ------------------------------ properties ----------------------------- *)

\* An admitted principal that is no SUPER_ADMIN.
NonSuperAdmin(c) == c.kind = "valid" /\ c.role \in {"ADMIN", "STAFF"}

SuperAdmin(c) == c.kind = "valid" /\ c.role = "SUPER_ADMIN"

OrderByIdOps ==
    {"GET /orders/:id", "PUT /orders/:id", "DELETE /orders/:id",
     "PATCH /orders/:id/status"}

CategoryByIdOps ==
    {"GET /categories/:id", "PUT /categories/:id", "DELETE /categories/:id"}

ProductWriteOps ==
    {"PUT /products/:id", "DELETE /products/:id", "PATCH /products/:id/status",
     "DELETE /products/:id/images"}

GuardedOps ==
    OrderByIdOps \cup CategoryByIdOps \cup ProductWriteOps
    \cup {"GET /orders", "POST /orders", "GET /categories", "POST /categories",
          "POST /products"}

\* C1: an ADMIN or STAFF principal (store A, or no store) that gets, updates,
\* deletes or status-patches an Order or Category of another store B is
\* answered 403 with no field of the record, and no table changes, whatever
\* the payload carries (a storeId equal to A included).
C1_CrossStoreOrderCategoryDenied ==
    [][(/\ last = Idle
        /\ NonSuperAdmin(last'.cred)
        /\ \/ /\ last'.op \in OrderByIdOps
              /\ last'.id \in DOMAIN orders
              /\ orders[last'.id].storeId # last'.cred.storeId
           \/ /\ last'.op \in CategoryByIdOps
              /\ last'.id \in DOMAIN categories
              /\ categories[last'.id].storeId # last'.cred.storeId)
       => /\ last'.code = 403
          /\ last'.out = {}
          /\ UNCHANGED tables]_vars

\* C1 happens: ADMIN of S1 sent storeId S1 in a PUT on an order of S2 and was
\* answered 403, the order still being there.
C1_Witness ==
    /\ last.op = "PUT /orders/:id"
    /\ last.cred = Principal("ADMIN", "S1")
    /\ last.req.storeId = "S1"
    /\ last.id \in DOMAIN orders
    /\ orders[last.id].storeId = "S2"
    /\ last.code = 403

\* C2: an ADMIN or STAFF principal of store A that sends PUT, DELETE, PATCH
\* status or DELETE images for a Product of another store B is answered 403,
\* and the product row and its category links stay as they were.
C2_CrossStoreProductDenied ==
    [][(/\ last = Idle
        /\ NonSuperAdmin(last'.cred)
        /\ last'.cred.storeId # NULL
        /\ last'.op \in ProductWriteOps
        /\ last'.id \in DOMAIN products
        /\ products[last'.id].storeId # last'.cred.storeId)
       => /\ last'.code = 403
          /\ products' = products
          /\ links' = links]_vars

\* C2 fails in this state: a principal of another store has switched a
\* product off and was answered 200.
C2_Witness ==
    /\ last.op = "PATCH /products/:id/status"
    /\ NonSuperAdmin(last.cred)
    /\ last.cred.storeId # NULL
    /\ last.code = 200
    /\ last.id \in DOMAIN products
    /\ products[last.id].storeId # last.cred.storeId
    /\ products[last.id].active = FALSE

\* C3: PUT /products/:id never changes the storeId of the product.
C3_ProductPutKeepsStore ==
    [][(/\ last = Idle
        /\ last'.op = "PUT /products/:id"
        /\ last'.id \in DOMAIN products)
       => /\ last'.id \in DOMAIN products'
          /\ products'[last'.id].storeId = products[last'.id].storeId]_vars

\* C3 fails in this state: the owner of S1 sent storeId S2 in a PUT that was
\* answered 200, and the product is now a row of S2.
C3_Witness ==
    /\ last.op = "PUT /products/:id"
    /\ last.cred.storeId = "S1"
    /\ last.req.storeId = "S2"
    /\ last.code = 200
    /\ last.id \in DOMAIN products
    /\ products[last.id].storeId = "S2"

\* C4: PUT /categories/:id, PUT /orders/:id and PATCH /orders/:id/status
\* never change the storeId of a Category or Order row.
C4_UpdatesKeepStore ==
    [][(/\ last = Idle
        /\ last'.op \in {"PUT /categories/:id", "PUT /orders/:id",
                         "PATCH /orders/:id/status"})
       => /\ DOMAIN orders' = DOMAIN orders
          /\ DOMAIN categories' = DOMAIN categories
          /\ \A i \in DOMAIN orders : orders'[i].storeId = orders[i].storeId
          /\ \A i \in DOMAIN categories :
                categories'[i].storeId = categories[i].storeId]_vars

\* C4 happens: a category of S1 was updated (its slug is the new one) by a
\* PUT that carried storeId S2, and it is still a row of S1.
C4_Witness ==
    /\ last.op = "PUT /categories/:id"
    /\ last.req.storeId = "S2"
    /\ last.code = 200
    /\ last.id \in DOMAIN categories
    /\ categories[last.id].storeId = "S1"
    /\ categories[last.id].slug = last.req.slug

\* C5: the admin guard lets a request through exactly when its credential
\* verifies and carries role SUPER_ADMIN, ADMIN or STAFF.  No or an invalid
\* credential is answered 401 and role CUSTOMER 403; in both cases the handler
\* does not run: the reply has no body and no table changes.  An admitted
\* request is never answered 401.
C5_AdminGuard ==
    [][(/\ last = Idle
        /\ last'.op \in GuardedOps)
       => /\ \A c \in Callers :
                admin(c) = 0 <=> /\ c.kind = "valid"
                                 /\ c.role \in {"SUPER_ADMIN", "ADMIN", "STAFF"}
          /\ last'.cred.kind # "valid"
                => last'.code = 401 /\ last'.out = {} /\ UNCHANGED tables
          /\ (last'.cred.kind = "valid" /\ last'.cred.role = "CUSTOMER")
                => last'.code = 403 /\ last'.out = {} /\ UNCHANGED tables
          /\ (SuperAdmin(last'.cred) \/ NonSuperAdmin(last'.cred))
                => last'.code # 401]_vars

\* C5 happens: a CUSTOMER of S1 asked for the categories of S1, which exist,
\* and was answered 403 with none of them.
C5_Witness ==
    /\ last.op = "GET /categories"
    /\ last.cred = Principal("CUSTOMER", "S1")
    /\ last.code = 403
    /\ last.out = {}
    /\ \E i \in DOMAIN categories : categories[i].storeId = "S1"

\* C6: a SUPER_ADMIN (storeId null) is never denied for tenant reasons when
\* getting, updating or deleting an existing Category, Product or Order: the
\* answer is never 403, whatever the store of the record.
C6_SuperAdminNeverDenied ==
    [][(/\ last = Idle
        /\ SuperAdmin(last'.cred)
        /\ last'.cred.storeId = NULL
        /\ \/ last'.op \in OrderByIdOps /\ last'.id \in DOMAIN orders
           \/ last'.op \in CategoryByIdOps /\ last'.id \in DOMAIN categories
           \/ /\ last'.op \in {"PUT /products/:id", "DELETE /products/:id"}
              /\ last'.id \in DOMAIN products)
       => last'.code # 403]_vars

\* C6 fails in this state: a SUPER_ADMIN's PUT on an existing product was
\* answered 403.
C6_Witness ==
    /\ last.op = "PUT /products/:id"
    /\ SuperAdmin(last.cred)
    /\ last.id \in DOMAIN products
    /\ last.code = 403

\* C7: every Order, Category or Product row that a request of an ADMIN or
\* STAFF principal inserts carries the principal's storeId, whatever storeId
\* the payload names.
C7_CreatedInOwnStore ==
    [][(/\ last = Idle
        /\ NonSuperAdmin(last'.cred)
        /\ last'.op \in {"POST /orders", "POST /categories", "POST /products"})
       => /\ \A i \in DOMAIN orders' \ DOMAIN orders :
                orders'[i].storeId = last'.cred.storeId
          /\ \A i \in DOMAIN categories' \ DOMAIN categories :
                categories'[i].storeId = last'.cred.storeId
          /\ \A i \in DOMAIN products' \ DOMAIN products :
                products'[i].storeId = last'.cred.storeId
          /\ \A r \in last'.out : r.row.storeId = last'.cred.storeId]_vars

\* C7 happens: ADMIN of S1 posted an order whose payload names S2; the order
\* was created and is a row of S1.
C7_Witness ==
    /\ last.op = "POST /orders"
    /\ last.cred = Principal("ADMIN", "S1")
    /\ last.req.storeId = "S2"
    /\ last.code = 201
    /\ \E r \in last.out :
          r.id \in DOMAIN orders /\ orders[r.id].storeId = "S1"

C9_SuperAdminCreatesProduct ==
    [][(/\ last = Idle
        /\ last'.op = "POST /products"
        /\ SuperAdmin(last'.cred)
        /\ last'.req.storeId \in Stores
        /\ ~productSlugTaken(last'.req.storeId, last'.req.slug, {})
        /\ linksInsertable(last'.req.categoryIds))
       => /\ last'.code = 201
          /\ \E i \in DOMAIN products' \ DOMAIN products :
                products'[i].storeId = last'.req.storeId]_vars

\* C9 fails in this state: a SUPER_ADMIN posted a product for the existing
\* store S1, where its slug is free, and was answered 403.
C9_Witness ==
    /\ last.op = "POST /products"
    /\ SuperAdmin(last.cred)
    /\ last.req.storeId = "S1"
    /\ ~productSlugTaken("S1", last.req.slug, {})
    /\ last.code = 403

\* C10: GET /orders and GET /categories.  For an ADMIN or STAFF principal of
\* store A every record returned is of store A, whatever storeId the query
\* names, and without a further filter the records returned are exactly those
\* of A (a page of them, for orders).  For a SUPER_ADMIN they are the records
\* of every store when the query names no store, and exactly those of the
\* named store when it does.  A non-super principal without store is answered
\* 400 with no record.
C10_ListsScoped ==
    [][(/\ last = Idle
        /\ last'.op \in {"GET /orders", "GET /categories"}
        /\ SuperAdmin(last'.cred) \/ NonSuperAdmin(last'.cred))
       => LET c == last'.cred
              req == last'.req
              scope == IF SuperAdmin(c) THEN storeIdQuery(req.storeId)
                       ELSE c.storeId
              expected ==
                  IF last'.op = "GET /orders"
                  THEN {withItems(i) :
                          i \in pageParams({j \in DOMAIN orders :
                                  scope = UNDEF \/ orders[j].storeId = scope})}
                  ELSE {Row(i, categories[i]) :
                          i \in {j \in DOMAIN categories :
                                  scope = UNDEF \/ categories[j].storeId = scope}}
          IN IF NonSuperAdmin(c) /\ c.storeId = NULL
             THEN last'.code = 400 /\ last'.out = {}
             ELSE /\ last'.code = 200
                  /\ scope # UNDEF => \A r \in last'.out : r.row.storeId = scope
                  /\ (req.status = UNDEF /\ req.q = UNDEF)
                        => last'.out = expected]_vars

\* C10 happens: ADMIN of S1 listed the orders with ?storeId=S2 while S2 has
\* an order; the reply holds orders, all of them of S1.
C10_Witness ==
    /\ last.op = "GET /orders"
    /\ last.cred = Principal("ADMIN", "S1")
    /\ last.req.storeId = "S2"
    /\ last.code = 200
    /\ last.out # {}
    /\ \A r \in last.out : r.row.storeId = "S1"
    /\ \E i \in DOMAIN orders : orders[i].storeId = "S2"

(* ------------------------ the order engine's claims -------------------- *)

\* C11: in every state reached by POST /orders, POST /storefront/orders and
\* PUT /orders/:id, every persisted Order has
\* totalCents = subtotalCents + deliveryCents + taxCents, whatever the
\* payloads carry.
C11_TotalIsSum ==
    \A i \in DOMAIN orders :
        orders[i].totalCents
            = orders[i].subtotalCents + orders[i].deliveryCents
              + orders[i].taxCents

\* C11 is about these states: an order was just written by POST /orders with
\* a payload total that is not the sum, or by PUT /orders/:id with a new
\* deliveryCents.
C11_Witness ==
    /\ last.code \in {200, 201}
    /\ \E o \in last.out : o.id \in DOMAIN orders
    /\ \/ /\ last.op = "POST /orders"
          /\ last.req.totalCents
                # last.req.subtotalCents + last.req.deliveryCents
                  + last.req.taxCents
       \/ /\ last.op = "PUT /orders/:id"
          /\ last.req.deliveryCents # UndefInt

\* C12: every persisted Order has subtotalCents = the sum of lineTotalCents
\* over its items; POST /orders stores the recomputed subtotal even when the
\* payload carries another subtotalCents.
C12_SubtotalIsSumOfLines ==
    \A i \in DOMAIN orders :
        orders[i].subtotalCents = sumLineTotals(itemsOf(i))

\* C12 is about this state: POST /orders has stored an order whose payload
\* carried a subtotalCents that is not the sum of its lines.
C12_Witness ==
    /\ last.op = "POST /orders"
    /\ last.code = 201
    /\ \E o \in last.out : o.id \in DOMAIN orders
    /\ last.req.subtotalCents \notin {0, computedSubtotal(last.req.items)}

\* C13: every persisted OrderItem, of the admin and of the storefront
\* channel, has lineTotalCents = unitPriceCents * quantity, quantity > 0 and
\* unitPriceCents >= 0.
C13_LineTotals ==
    \A i \in DOMAIN orderItems : \A k \in DOMAIN orderItems[i] :
        LET it == orderItems[i][k]
        IN /\ it.lineTotalCents = it.unitPriceCents * it.quantity
           /\ it.quantity > 0
           /\ it.unitPriceCents >= 0

\* C13 happens: an item with a quantity of two and a line total of twice
\* the product's price is stored by the storefront, and an admin payload with
\* a quantity of zero has been turned away.
C13_Witness ==
    /\ \E i \in DOMAIN orderItems :
          /\ orderItems[i][1].quantity = 2
          /\ orderItems[i][1].unitPriceCents = 1000
          /\ orderItems[i][1].lineTotalCents = 2000
    /\ last.op = "POST /orders"
    /\ last.req.items # <<>>
    /\ last.req.items[1].quantity = 0
    /\ last.code = 500

\* C14: the order aggregate is written all-or-nothing: after every step every
\* persisted Order has at least one OrderItem and every OrderItem belongs to
\* a persisted Order, and an order creation (admin or storefront) that does
\* not answer 201 leaves the Order and OrderItem tables as they were.
C14_AggregateAtomic ==
    [][/\ \A i \in DOMAIN orders' : Len(orderItems'[i]) >= 1
       /\ DOMAIN orderItems' = DOMAIN orders'
       /\ (/\ last = Idle
           /\ last'.op \in {"POST /orders", "POST /storefront/orders"}
           /\ last'.code # 201)
          => UNCHANGED <<orders, orderItems>>
       /\ (/\ last = Idle
           /\ last'.op \in {"POST /orders", "POST /storefront/orders"}
           /\ last'.code = 201)
          => \E i \in DOMAIN orders' \ DOMAIN orders :
                /\ DOMAIN orders' = DOMAIN orders \cup {i}
                /\ Len(orderItems'[i]) = Len(last'.req.items)]_vars

\* C14 happens: with an order and its items stored, the insert of a second
\* order failed on its store reference and was answered 500.
C14_Witness ==
    /\ last.op = "POST /orders"
    /\ last.req.storeId = GhostStore
    /\ last.code = 500
    /\ \E i \in DOMAIN orders : Len(orderItems[i]) >= 1

\* C15: POST /storefront/orders answers 400 'products no longer exist' if and
\* only if some requested productId names no Product (found products are
\* compared with the distinct requested ids, so the same product on two lines
\* is accepted); a failure writes no Order and no OrderItem.
C15_MissingProductIff ==
    [][(last = Idle /\ last'.op = "POST /storefront/orders")
       => /\ (last'.code = 400 /\ last'.out = {NoLongerExist})
             <=> (\E k \in DOMAIN last'.req.items :
                     last'.req.items[k].productId \notin DOMAIN products)
          /\ last'.code # 201 => UNCHANGED <<orders, orderItems>>]_vars

\* C15 is about this state: a storefront order listing one existing product
\* on two lines has been answered.
C15_Witness ==
    /\ last.op = "POST /storefront/orders"
    /\ Len(last.req.items) = 2
    /\ last.req.items[1].productId = last.req.items[2].productId
    /\ last.req.items[1].productId \in DOMAIN products
    /\ last.code = 400
    /\ last.out = {NoLongerExist}

\* C16: a storefront order whose requested products belong to more than one
\* store is answered 400 and writes no Order and no OrderItem; the products
\* of every storefront order answered 201 are of exactly one store, the
\* order's.
C16_OneStorePerOrder ==
    [][(last = Idle /\ last'.op = "POST /storefront/orders")
       => LET requested == {last'.req.items[k].productId :
                               k \in DOMAIN last'.req.items}
              stores == {products[i].storeId :
                            i \in requested \cap DOMAIN products}
          IN /\ (requested \subseteq DOMAIN products /\ Cardinality(stores) > 1)
                => /\ last'.code = 400
                   /\ UNCHANGED <<orders, orderItems>>
             /\ last'.code = 201
                => /\ requested \subseteq DOMAIN products
                   /\ \E o \in last'.out : stores = {orders'[o.id].storeId}]_vars

\* C16 happens: an order for a product of S1 and a product of S2 has been
\* answered 400 with the same-store error.
C16_Witness ==
    /\ last.op = "POST /storefront/orders"
    /\ Len(last.req.items) = 2
    /\ {last.req.items[1].productId, last.req.items[2].productId}
          \subseteq DOMAIN products
    /\ products[last.req.items[1].productId].storeId
          # products[last.req.items[2].productId].storeId
    /\ last.code = 400
    /\ last.out = {SameStoreOnly}

StatusTransitions ==
    {<<"PENDING", "PAID">>, <<"PAID", "FULFILLED">>,
     <<"PENDING", "CANCELLED">>, <<"PAID", "CANCELLED">>}

\* C18: every change of an Order's status made by PATCH /orders/:id/status or
\* PUT /orders/:id is PENDING->PAID, PAID->FULFILLED, PENDING->CANCELLED or
\* PAID->CANCELLED; an Order that is FULFILLED or CANCELLED never changes
\* status again.
C18_StatusMachine ==
    [][\A i \in DOMAIN orders \cap DOMAIN orders' :
          orders'[i].status # orders[i].status
             => <<orders[i].status, orders'[i].status>> \in StatusTransitions]_vars

\* C18 is about this state: a status patch on a stored order has been
\* answered 200 and the order carries the patched status.
C18_Witness ==
    /\ last.op = "PATCH /orders/:id/status"
    /\ last.code = 200
    /\ last.id \in DOMAIN orders
    /\ last.req.status = "PENDING"
    /\ orders[last.id].status = "PENDING"

\* C19: in every reachable state every OrderItem of an Order references a
\* Product whose storeId, while that Product exists, is the Order's storeId,
\* whichever channel created the order.
C19_ItemsShareStore ==
    \A i \in DOMAIN orders : \A k \in DOMAIN itemsOf(i) :
        LET pid == itemsOf(i)[k].productId
        IN pid \in DOMAIN products
              => products[pid].storeId = orders[i].storeId

\* C19 is about this state: POST /orders by a principal of S2 has stored an
\* order of S2 with a line on a product of S1.
C19_Witness ==
    /\ last.op = "POST /orders"
    /\ last.code = 201
    /\ last.cred = Principal("STAFF", "S2")
    /\ \E o \in last.out :
          /\ o.id \in DOMAIN orders
          /\ orders[o.id].storeId = "S2"
          /\ orderItems[o.id][1].productId \in DOMAIN products
          /\ products[orderItems[o.id][1].productId].storeId = "S1"

\* C20: no two Categories share (storeId, slug) in any reachable state; a
\* create, or the write of an update, that asks for a slug used by another
\* Category of the same store is answered 409 and changes no Category, also
\* when the update's read was done before other requests ran; a create with a
\* slug used only in other stores is answered 201.
C20_SlugUniquePerStore ==
    [][/\ \A i, j \in DOMAIN categories' :
             (/\ categories'[i].storeId = categories'[j].storeId
              /\ categories'[i].slug = categories'[j].slug) => i = j
       /\ (/\ last = Idle
           /\ last'.op = "POST /categories"
           /\ last'.code \notin {400, 500})
          => LET storeId == IF SuperAdmin(last'.cred) THEN last'.req.storeId
                            ELSE last'.cred.storeId
                 used == \E i \in DOMAIN categories :
                             /\ categories[i].storeId = storeId
                             /\ categories[i].slug = last'.req.slug
             IN IF used
                THEN last'.code = 409 /\ UNCHANGED categories
                ELSE last'.code = 201
       /\ (/\ last = Idle
           /\ last'.op = "PUT /categories/:id"
           /\ reading' # reading
           /\ last'.id \in DOMAIN categories
           /\ \E i \in DOMAIN categories \ {last'.id} :
                 /\ categories[i].storeId = categories[last'.id].storeId
                 /\ categories[i].slug = last'.req.slug)
          => last'.code = 409 /\ UNCHANGED categories]_vars

\* C20 happens: two updates of two categories of one store asked for the same
\* free slug and were both read; the first has been written and answered 200,
\* the second still waits for its write.
C20_Witness ==
    /\ last.op = "PUT /categories/:id"
    /\ last.code = 200
    /\ last.req.slug = "c"
    /\ categories[last.id].slug = "c"
    /\ \E p \in reading :
          /\ p.id # last.id
          /\ p.req.slug = "c"
          /\ p.id \in DOMAIN categories
          /\ categories[p.id].storeId = categories[last.id].storeId

(* ----------------------- errors, roles and snapshots ------------------- *)

\* C21: POST /products with a slug that a Product of the same store already
\* uses is answered 409, not a generic failure, and writes no Product and no
\* product-category link.
C21_ProductSlugConflict ==
    [][(/\ last = Idle
        /\ last'.op = "POST /products"
        /\ admin(last'.cred) = 0
        /\ last'.cred.storeId = last'.req.storeId
        /\ \E i \in DOMAIN products :
              /\ products[i].storeId = last'.req.storeId
              /\ products[i].slug = last'.req.slug)
       => /\ last'.code = 409
          /\ UNCHANGED <<products, links>>]_vars

\* C21 is about this state: a principal of the store has posted a product
\* whose slug a product of that store holds, and has been answered.
C21_Witness ==
    /\ last.op = "POST /products"
    /\ last.cred.storeId = last.req.storeId
    /\ last.code \in {409, 500}
    /\ \E i \in DOMAIN products :
          /\ products[i].storeId = last.req.storeId
          /\ products[i].slug = last.req.slug

\* C22: DELETE /categories/:id on a Category that a product-category link
\* still references is answered 409 and leaves the Category rows and the
\* links as they were; a Category is deleted only when no link references it.
C22_CategoryInUse ==
    [][(/\ last = Idle
        /\ last'.op = "DELETE /categories/:id")
       => /\ (/\ admin(last'.cred) = 0
              /\ last'.id \in DOMAIN categories
              /\ \/ SuperAdmin(last'.cred)
                 \/ last'.cred.storeId = categories[last'.id].storeId
              /\ \E l \in links : l.categoryId = last'.id)
             => /\ last'.code = 409
                /\ UNCHANGED <<categories, links>>
          /\ last'.id \in DOMAIN categories \ DOMAIN categories'
             => /\ last'.code = 204
                /\ ~ \E l \in links : l.categoryId = last'.id]_vars

\* C22 happens: the owner's delete of a category that a product is linked to
\* has been answered 409, category and link still there.
C22_Witness ==
    /\ last.op = "DELETE /categories/:id"
    /\ last.code = 409
    /\ last.id \in DOMAIN categories
    /\ \E l \in links : l.categoryId = last.id /\ l.productId \in DOMAIN products

ErrorCodes == {400, 401, 403, 404, 409, 500}

\* C23: a request to an order, category or product endpoint that is answered
\* 400, 401, 403, 404, 409 or 500 leaves the Orders, OrderItems, Products,
\* Categories and product-category links as they were before the request.
C23_ErrorsWriteNothing ==
    [][(last = Idle /\ last'.code \in ErrorCodes)
       => UNCHANGED <<orders, orderItems, products, categories, links>>]_vars

\* C23 happens: a product create whose category link could not be inserted
\* has been answered 500.
C23_Witness ==
    /\ last.op = "POST /products"
    /\ last.code = 500
    /\ last.req.categoryIds = <<1>>
    /\ 1 \notin DOMAIN categories

\* C24: STAFF is operationally equal to ADMIN: in every reachable state, for
\* every operation and payload, a STAFF principal with storeId s gets the
\* response, and causes the state change, that an ADMIN principal with the
\* same storeId s gets and causes. The two are compared in the state a request
\* finds, the one with no request being answered.
C24_StaffEqualsAdmin ==
    last = Idle =>
    \A s \in Stores \cup {NULL} :
        LET a == Principal("ADMIN", s)
            b == Principal("STAFF", s)
        IN /\ admin(a) = admin(b)
           /\ \A q \in OrderQueries : GET_orders(a, q) = GET_orders(b, q)
           /\ \A q \in CategoryQueries :
                 GET_categories(a, q) = GET_categories(b, q)
           /\ \A body \in OrderBodies \cup EngineOrderBodies :
                 POST_orders(a, body) = POST_orders(b, body)
           /\ \A body \in CategoryBodies :
                 POST_categories(a, body) = POST_categories(b, body)
           /\ \A body \in ProductBodies \cup EngineProductBodies :
                 POST_products(a, body) = POST_products(b, body)
           /\ \A id \in Ids :
                 /\ GET_orders_id(a, id) = GET_orders_id(b, id)
                 /\ GET_categories_id(a, id) = GET_categories_id(b, id)
                 /\ DELETE_orders_id(a, id) = DELETE_orders_id(b, id)
                 /\ \A raw \in OrderUpdates \cup EngineOrderUpdates :
                       PUT_orders_id(a, id, raw) = PUT_orders_id(b, id, raw)
                 /\ \A body \in StatusPatches \cup EngineStatusPatches :
                       PATCH_orders_id_status(a, id, body)
                          = PATCH_orders_id_status(b, id, body)
                 /\ \A raw \in CategoryUpdates :
                       PUT_categories_id(a, id, raw) = PUT_categories_id(b, id, raw)
                 /\ \A raw \in ProductUpdates :
                       PUT_products_id(a, id, raw) = PUT_products_id(b, id, raw)
                 /\ \A body \in ActiveBodies :
                       PATCH_products_id_status(a, id, body)
                          = PATCH_products_id_status(b, id, body)
                 /\ \A s3ok \in BOOLEAN :
                       /\ DELETE_categories_id(a, id, s3ok)
                             = DELETE_categories_id(b, id, s3ok)
                       /\ DELETE_products_id(a, id, s3ok)
                             = DELETE_products_id(b, id, s3ok)
                       /\ \A body \in ImageBodies :
                             DELETE_products_id_images(a, id, body, s3ok)
                                = DELETE_products_id_images(b, id, body, s3ok)

\* C24 happens: the two roles are compared in a state where store S2 holds
\* an order and a category, so that their requests by id are let through.
C24_Witness ==
    /\ last = Idle
    /\ \E i \in DOMAIN orders :
          /\ orders[i].storeId = "S2"
          /\ PUT_orders_id(Principal("STAFF", "S2"), i,
                           [storeId |-> UNDEF, status |-> "PAID",
                            deliveryCents |-> UndefInt, taxCents |-> UndefInt,
                            totalCents |-> UndefInt]).code = 200
    /\ \E i \in DOMAIN categories : categories[i].storeId = "S2"

ProductOps ==
    {"POST /products", "PUT /products/:id", "DELETE /products/:id",
     "DELETE /products/:id/images", "PATCH /products/:id/status"}

\* C25: an OrderItem is a snapshot: a later update (or any other request on
\* the product routes) of the referenced Product leaves every item's
\* unitPriceCents, lineTotalCents, productTitle, productSku and
\* productImageUrl and every Order's subtotalCents and totalCents unchanged.
C25_ItemsAreSnapshots ==
    [][(last = Idle /\ last'.op \in ProductOps)
       => /\ orderItems' = orderItems
          /\ orders' = orders]_vars

\* C25 happens: a product ordered at 1000 under the title t1 has been
\* repriced to 1200 and retitled t9, and the order's item still carries 1000
\* and t1.
C25_Witness ==
    /\ last.op = "PUT /products/:id"
    /\ last.code = 200
    /\ last.id \in DOMAIN products
    /\ products[last.id].priceCents = 1200
    /\ products[last.id].title = "t9"
    /\ \E i \in DOMAIN orders :
          /\ orderItems[i][1].productId = last.id
          /\ orderItems[i][1].unitPriceCents = 1000
          /\ orderItems[i][1].productTitle = "t1"
          /\ orders[i].subtotalCents
                = orderItems[i][1].quantity * 1000

\* C26: order creation through either channel never changes a Product, its
\* stock included, and a storefront order is refused only when a product it
\* names is missing: two storefront orders of one Product that run
\* concurrently both succeed, whatever the stock and the quantities.
C26_StockNeverChecked ==
    [][(/\ last = Idle
        /\ last'.op \in {"POST /orders", "POST /storefront/orders"})
       => /\ products' = products
          /\ (/\ last'.op = "POST /storefront/orders"
              /\ \A k \in DOMAIN last'.req.items :
                    last'.req.items[k].productId \in DOMAIN products)
             => last'.code = 201]_vars

\* C26 happens: two storefront orders of a product with stock 0 were read
\* together; one has been created and answered 201 while the other waits.
C26_Witness ==
    /\ last.op = "POST /storefront/orders"
    /\ last.code = 201
    /\ 1 \in DOMAIN products
    /\ products[1].stock = 0
    /\ \E o \in last.out : orderItems[o.id][1].productId = 1
    /\ \E p \in placing : p.items[1].productId = 1 /\ p.req # last.req

\* C27: the response an ADMIN or STAFF principal of store A gets for a get,
\* update or delete by id does not depend on other stores' data: for an id
\* naming a resource of another store the response is the one given when no
\* resource has that id (404, empty, nothing changed).
C27_NoExistenceOracle ==
    [][(/\ last = Idle
        /\ admin(last'.cred) = 0
        /\ NonSuperAdmin(last'.cred)
        /\ last'.cred.storeId # NULL
        /\ \/ /\ last'.op \in OrderByIdOps
              /\ last'.id \in DOMAIN orders
              /\ orders[last'.id].storeId # last'.cred.storeId
           \/ /\ last'.op \in CategoryByIdOps
              /\ last'.id \in DOMAIN categories
              /\ categories[last'.id].storeId # last'.cred.storeId)
       => /\ last'.code = 404
          /\ last'.out = {}
          /\ UNCHANGED tables]_vars

\* C27 is about this state: STAFF of S2 has asked for a category by an id that
\* names a category of S1, and has been answered.
C27_Witness ==
    /\ last.op = "GET /categories/:id"
    /\ last.cred = Principal("STAFF", "S2")
    /\ last.id \in DOMAIN categories
    /\ categories[last.id].storeId = "S1"
    /\ last.code \in {403, 404}

\* C28: in every reachable state every product-category link joins a Product
\* and a Category of the same store: product creation and update accept only
\* categoryIds of Categories owned by the product's own store.
C28_LinksWithinStore ==
    \A l \in links :
        /\ l.productId \in DOMAIN products
        /\ l.categoryId \in DOMAIN categories
        /\ products[l.productId].storeId = categories[l.categoryId].storeId

\* C28 is about this state: a product has just been created with a category
\* id in its body, and the link is in the table.
C28_Witness ==
    /\ last.op = "POST /products"
    /\ last.code = 201
    /\ Len(last.req.categoryIds) > 0
    /\ \E l \in links : l.categoryId = last.req.categoryIds[1]

\* C29: a storefront order whose products are updated or deleted between its
\* catalog read and its write ends in one of two ways: no Order and no
\* OrderItem at all, or a whole Order whose every item has the price, title
\* and sku its Product had at the read, with subtotalCents the sum of the
\* line totals and totalCents that sum plus delivery and tax.
C29_RacedOrderWholeOrAbsent ==
    [][\A p \in placing \ placing' :
          \/ /\ last'.code # 201
             /\ orders' = orders
             /\ orderItems' = orderItems
          \/ /\ last'.code = 201
             /\ DOMAIN orders' = DOMAIN orders \cup {nextOrder}
             /\ DOMAIN orderItems' = DOMAIN orderItems \cup {nextOrder}
             /\ \A i \in DOMAIN orders : /\ orders'[i] = orders[i]
                                         /\ orderItems'[i] = orderItems[i]
             /\ LET o == orders'[nextOrder]
                    its == orderItems'[nextOrder]
                IN /\ Len(its) = Len(p.req.items)
                   /\ \A k \in DOMAIN its :
                         LET was == p.seen[p.req.items[k].productId]
                         IN /\ its[k].productId = p.req.items[k].productId
                            /\ its[k].quantity = p.req.items[k].quantity
                            /\ its[k].unitPriceCents = was.priceCents
                            /\ its[k].productTitle = was.title
                            /\ its[k].productSku = was.sku
                            /\ its[k].lineTotalCents =
                                  was.priceCents * its[k].quantity
                   /\ o.subtotalCents = sumLineTotals(its)
                   /\ o.totalCents = o.subtotalCents + p.req.deliveryCents
                                     + p.req.taxCents]_vars

\* C29 is about this state: a storefront order has just been written for a
\* product whose price, title and sku were changed after the order read them.
C29_Witness ==
    /\ last.op = "POST /storefront/orders"
    /\ last.code = 201
    /\ \E o \in last.out :
          /\ o.id \in DOMAIN orderItems
          /\ \E k \in DOMAIN orderItems[o.id] :
                LET it == orderItems[o.id][k]
                IN /\ it.productId \in DOMAIN products
                   /\ products[it.productId].priceCents # it.unitPriceCents
                   /\ products[it.productId].title # it.productTitle
                   /\ products[it.productId].sku # it.productSku

\* C30: when DELETE /categories/:id does not remove the Category row (409
\* because a product still uses it, or any other failure of the row delete),
\* the category's icon object has not been deleted from object storage.
C30_IconOutlivesKeptRow ==
    [][(/\ last = Idle
        /\ last'.op = "DELETE /categories/:id"
        /\ last'.id \in DOMAIN categories
        /\ last'.id \in DOMAIN categories')
       => s3Deleted' = s3Deleted]_vars

\* C30 is about this state: the delete of a category that has an icon and is
\* used by a product has been answered 409, the row still being there.
C30_Witness ==
    /\ last.op = "DELETE /categories/:id"
    /\ last.code = 409
    /\ last.id \in DOMAIN categories
    /\ categories[last.id].iconUrl # NULL
    /\ \E l \in links : l.categoryId = last.id
====
